---- MODULE Spec2Model ----
(***************************************************************************)
(* Hymn broadcast timeline engine                                          *)
(* A model of the live playback locator (src/lib/radioStation.ts), the     *)
(* 30-minute block scheduler (src/lib/musicSelector.ts), the session       *)
(* store (src/lib/broadcastSession.ts) and the dashboard / player glue     *)
(* (src/app/dashboard/page.tsx, src/components/SpotifyPlayer.tsx).         *)
(*                                                                         *)
(* Timestamps are milliseconds (Date.getTime()); ISO strings carry         *)
(* millisecond precision, so a timestamp stored as an ISO string and read  *)
(* back with new Date() is the same number.  Local time is taken without   *)
(* daylight-saving shifts.  Segment timings and durations are seconds.     *)
(* A text is the sequence of its phrases; the empty string is <<>>.        *)
(***************************************************************************)
EXTENDS Integers, Sequences, FiniteSets, TLC

VARIABLES
    now,            \* the wall clock, ms
    \* ---- live playback locator
    lBlock,         \* the block handed to getCurrentPlaybackPosition
    lResult,        \* what the call returned (NoResult before the call)
    \* ---- generateBlockSchedule
    sNow,           \* the function's const now
    sI,             \* the loop index i
    sBlocks,        \* the blocks array
    sPc,            \* "idle", "loop", "done" (returned) or "threw" (rejected)
    sEnv,           \* how the external collaborators behave during this run
    \* ---- session store and dashboard
    storage,        \* localStorage['hymn_broadcast_session'], Null when absent
    dash,           \* per browser tab: the Dashboard component's state
    player,         \* tab 1's SpotifyPlayer: device, pending timer, last play request
    ticks,          \* clock steps taken so far
    \* ---- timeline engine (the database behind prisma)
    db,             \* the timeline row of today, its items, the ids handed out
    calls,          \* per request: where its getOrCreateTimeline stands
    \* ---- readers of the persisted session
    readers,        \* per reader: its last evaluation of the locator functions
    \* ---- generateAudioBlock (POST /api/blocks/generate)
    gen,            \* one request: where it stands, what its collaborators answer, its results
    \* ---- SpotifyPlayer's playTrack, and the hymn_voice_<id> items of localStorage
    play,           \* one user-level playTrack call: where it stands, the requests it sent
    voiceCache      \* the cached voice audio by id, and the audio the player last used

locVars == <<lBlock, lResult>>
schedVars == <<sNow, sI, sBlocks, sPc, sEnv>>
dashVars == <<storage, dash, player, ticks>>
tlVars == <<db, calls>>
vars == <<now, locVars, schedVars, dashVars, tlVars, readers, gen, play, voiceCache>>

(***************************************************************************)
(* Values shared by all components                                         *)
(***************************************************************************)
\* JavaScript null / undefined
Null == [null |-> TRUE]

\* no call has returned yet
NoResult == [pending |-> TRUE]

MS_PER_SECOND == 1000
MS_PER_MINUTE == 60 * MS_PER_SECOND
MS_PER_HOUR == 60 * MS_PER_MINUTE

Min(a, b) == IF a < b THEN a ELSE b

\* Math.ceil(a / b) for a >= 0, b > 0
CeilDiv(a, b) == (a + b - 1) \div b

\* Date.getMinutes()
getMinutes(t) == (t \div MS_PER_MINUTE) % 60

\* Date.getSeconds()
getSeconds(t) == (t \div MS_PER_SECOND) % 60

\* Date.getHours()
getHours(t) == (t \div MS_PER_HOUR) % 24

\* Date.setMinutes(m, 0, 0): minutes set (values past 59 roll over), seconds and ms cleared
setMinutes00(t, m) == (t \div MS_PER_HOUR) * MS_PER_HOUR + m * MS_PER_MINUTE

\* Date.setMinutes(m): seconds and ms kept
setMinutes(t, m) == (t \div MS_PER_HOUR) * MS_PER_HOUR + m * MS_PER_MINUTE + (t % MS_PER_MINUTE)

\* Date.setSeconds(s, 0): seconds set, ms cleared
setSeconds0(t, s) == (t \div MS_PER_MINUTE) * MS_PER_MINUTE + s * MS_PER_SECOND

\* Date.setSeconds(s): ms kept
setSeconds(t, s) == (t \div MS_PER_MINUTE) * MS_PER_MINUTE + s * MS_PER_SECOND + (t % MS_PER_SECOND)

\* Date.setHours(h): minutes, seconds and ms kept
setHours(t, h) == (t \div (24 * MS_PER_HOUR)) * (24 * MS_PER_HOUR) + h * MS_PER_HOUR + (t % MS_PER_HOUR)

(***************************************************************************)
(* Block scheduler: src/lib/musicSelector.ts                               *)
(***************************************************************************)
BLOCK_DURATION_MINUTES == 30
PRELOAD_HOURS == 12
BLOCKS_TO_GENERATE == (PRELOAD_HOURS * 60) \div BLOCK_DURATION_MINUTES

\* BLOCK_SECONDS of createRadioSegments, also the literal of createFallbackBlock
BLOCK_SECONDS == BLOCK_DURATION_MINUTES * 60

\* "Assume ~3 min per track"
ASSUMED_TRACK_SECONDS == 180

\* a plausible slip: the start is not floored to the :00/:30 boundary
BlockStartOf_NoBoundary(t, i) ==
    setMinutes(t, getMinutes(t) + i * BLOCK_DURATION_MINUTES)

\* blockStart of iteration i: now floored to its :00/:30 boundary, plus i blocks
BlockStartOf(t, i) ==
    LET boundary == setMinutes00(t, (getMinutes(t) \div 30) * 30)
    IN  setMinutes(boundary, getMinutes(boundary) + i * BLOCK_DURATION_MINUTES)

\* blockEnd: blockStart plus one block
BlockEndOf(blockStart) ==
    setMinutes(blockStart, getMinutes(blockStart) + BLOCK_DURATION_MINUTES)

\* analyzeBlock's mapping of the model's JSON: ids voice-<Date.now()>-<index>
analyzeBlock(response, t) ==
    [strategy |-> IF "strategy" \in DOMAIN response THEN response.strategy ELSE Null,
     voiceContent |->
        [k \in 1..Len(response.voiceContent) |->
            [id |-> <<"voice", t, k - 1>>,
             timing |-> response.voiceContent[k].timing,
             content |-> response.voiceContent[k].content,
             priority |-> response.voiceContent[k].priority,
             duration |-> response.voiceContent[k].duration]]]

\* { ...voiceContent[k], timing, duration }: the spread of undefined is the empty object
RadioVoiceSlot(voiceContent, k, timing, duration) ==
    IF k <= Len(voiceContent)
    THEN <<[voiceContent[k] EXCEPT !.timing = timing, !.duration = duration]>>
    ELSE <<>>

\* .filter(v => v.content): undefined and the empty string are dropped
RECURSIVE FilterContent(_)
FilterContent(slots) ==
    IF slots = <<>> THEN <<>>
    ELSE IF Head(slots).content # <<>> THEN <<Head(slots)>> \o FilterContent(Tail(slots))
         ELSE FilterContent(Tail(slots))

createRadioSegments(strategy, voiceContent) ==
    [voice |-> FilterContent(RadioVoiceSlot(voiceContent, 1, 780, 60)
                             \o RadioVoiceSlot(voiceContent, 2, 1740, 60)),
     musicDurations |-> << [start |-> 0, duration |-> 780],
                           [start |-> 840, duration |-> 900] >>]

\* a plausible slip: the track keeps its natural length, the window's end is ignored
TrackDuration_Untruncated(track, start, duration, currentTime) ==
    track.duration_ms \div MS_PER_SECOND

\* trackDuration = Math.min(Math.floor(track.duration_ms / 1000), start + duration - currentTime)
TrackDuration(track, start, duration, currentTime) ==
    Min(track.duration_ms \div MS_PER_SECOND, start + duration - currentTime)

\* the inner for-loop of generateMusicForBlock from index i (0-based) on
RECURSIVE FillWindow(_, _, _, _, _)
FillWindow(tracks, i, start, duration, currentTime) ==
    IF ~(i < CeilDiv(duration, ASSUMED_TRACK_SECONDS) /\ i < Len(tracks)) THEN <<>>
    ELSE LET track == tracks[i + 1]
             trackDuration == TrackDuration(track, start, duration, currentTime)
             segment == [timing |-> currentTime,
                         duration |-> trackDuration,
                         spotifyUri |-> track.uri,
                         volume |-> "0.7",
                         fadeIn |-> IF currentTime = start THEN "2" ELSE "0",
                         fadeOut |-> "1"]
         IN  <<segment>> \o
             (IF currentTime + trackDuration >= start + duration THEN <<>>
              ELSE FillWindow(tracks, i + 1, start, duration, currentTime + trackDuration))

\* the outer loop over the music windows
RECURSIVE generateMusicForBlock(_, _)
generateMusicForBlock(tracks, durations) ==
    IF durations = <<>> THEN <<>>
    ELSE FillWindow(tracks, 0, Head(durations).start, Head(durations).duration,
                    Head(durations).start)
         \o generateMusicForBlock(tracks, Tail(durations))

\* a plausible slip: the segments whose synthesis failed are left out of the result
RECURSIVE SpeechSegmentsFrom(_, _, _)
SpeechSegmentsFrom(segments, ttsFails, k) ==
    IF k > Len(segments) THEN <<>>
    ELSE (IF k \in ttsFails THEN <<>>
          ELSE << [id |-> segments[k].id, timing |-> segments[k].timing,
                   content |-> segments[k].content, priority |-> segments[k].priority,
                   duration |-> segments[k].duration,
                   audioUrl |-> <<"tts", segments[k].content>>] >>)
         \o SpeechSegmentsFrom(segments, ttsFails, k + 1)

generateMultipleSpeechSegments_DropFailed(segments, ttsFails) ==
    SpeechSegmentsFrom(segments, ttsFails, 1)

\* generateMultipleSpeechSegments: a failed synthesis returns the segment as it was
generateMultipleSpeechSegments(segments, ttsFails) ==
    [k \in 1..Len(segments) |->
        IF k \in ttsFails THEN segments[k]
        ELSE [id |-> segments[k].id, timing |-> segments[k].timing,
              content |-> segments[k].content, priority |-> segments[k].priority,
              duration |-> segments[k].duration,
              audioUrl |-> <<"tts", segments[k].content>>]]

FallbackStyles == <<"focus", "ambient", "energetic", "upbeat">>
FallbackTracks == <<"spotify:track:3n3Ppam7vgaVa1iaRUc9Lp", "spotify:track:5HCyWlXZPP0y6Gqq8TgA20",
                    "spotify:track:0VjIjW4GlUZAMYd2vXMi3b", "spotify:track:6DCZcSspjsKoFjzjrWoCdn">>

createFallbackBlock(startTime, endTime, blockIndex, t) ==
    [id |-> <<"fallback-block", startTime>>,
     startTime |-> startTime,
     endTime |-> endTime,
     strategy |-> [musicStyle |-> FallbackStyles[(blockIndex % 4) + 1],
                   musicVolume |-> "0.7",
                   voiceFrequency |-> "moderate",
                   interruptionLevel |-> "low",
                   reasoning |-> "Demo mode - AI unavailable"],
     voiceContent |-> <<>>,
     musicContent |-> << [timing |-> 0,
                          duration |-> 1800,
                          spotifyUri |-> FallbackTracks[(blockIndex % Len(FallbackTracks)) + 1],
                          volume |-> "0.7"] >>,
     generatedAt |-> t]

\* generateRadioBlock against one block's collaborators (env): the block, or the
\* exception together with what had been built when it was thrown
generateRadioBlock(startTime, endTime, env, t) ==
    IF ~env.calendarOk THEN [threw |-> TRUE, partial |-> <<>>]          \* getUpcomingEvents rejects
    \* getTopHeadlines catches its own failure and returns mock news
    ELSE IF ~env.aiOk THEN [threw |-> TRUE, partial |-> <<>>]          \* analyzeBlock rejects
    ELSE LET analysis == analyzeBlock(env.ai, t)
             radioSegments == createRadioSegments(analysis.strategy, analysis.voiceContent)
             voiceWithAudio == generateMultipleSpeechSegments(radioSegments.voice, env.ttsFails)
         IN  IF ~env.catalogOk
             THEN [threw |-> TRUE, partial |-> voiceWithAudio]         \* getTracksForMood rejects
             ELSE [threw |-> FALSE,
                   block |-> [id |-> <<"block", startTime>>,
                              startTime |-> startTime,
                              endTime |-> endTime,
                              strategy |-> analysis.strategy,
                              voiceContent |-> voiceWithAudio,
                              musicContent |-> generateMusicForBlock(env.tracks,
                                                    radioSegments.musicDurations),
                              generatedAt |-> t]]

\* a plausible slip: the failure is logged and thrown on
CatchBlockFailure_Rethrow(blocks, blockStart, blockEnd, i, partial, t) ==
    [pc |-> "threw", blocks |-> blocks]

\* a plausible slip: the fallback keeps the voice segments built before the failure
CatchBlockFailure_KeepPartial(blocks, blockStart, blockEnd, i, partial, t) ==
    [pc |-> "loop",
     blocks |-> Append(blocks, [createFallbackBlock(blockStart, blockEnd, i, t)
                                   EXCEPT !.voiceContent = partial])]

\* the catch clause of generateBlockSchedule's loop body
CatchBlockFailure(blocks, blockStart, blockEnd, i, partial, t) ==
    [pc |-> "loop", blocks |-> Append(blocks, createFallbackBlock(blockStart, blockEnd, i, t))]

(***************************************************************************)
(* Voice text: generateVoiceContent, src/lib/musicSelector.ts              *)
(***************************************************************************)
getDayPart(hour) ==
    IF hour >= 5 /\ hour < 8 THEN "early-morning"
    ELSE IF hour >= 8 /\ hour < 12 THEN "morning"
    ELSE IF hour >= 12 /\ hour < 17 THEN "afternoon"
    ELSE IF hour >= 17 /\ hour < 21 THEN "evening"
    ELSE "night"

djIntros ==
    <<"Hey there, it's Hymn - your personal DJ!", "What's up! Hymn here with your next block.",
      "Alright, tuning into your vibe right now.", "Hey! Let's keep this energy going.">>

\* artistName is <<>> when undefined
generateVoiceContent(timeOfDay, events, blockIndex, artistName) ==
    LET dayPart == getDayPart(getHours(timeOfDay))
        randomIntro == djIntros[(blockIndex % Len(djIntros)) + 1]
        hasArtist == artistName # <<>>
        isMorning == dayPart = "early-morning" \/ dayPart = "morning"
    IN  IF isMorning /\ Len(events) > 0
        THEN IF hasArtist
             THEN <<randomIntro, "You've got", events[1].summary, "at", events[1].timeStr,
                    "Before that, here's some">> \o artistName \o <<"to get you in the zone!">>
             ELSE <<randomIntro, "Coming up at", events[1].timeStr, "-", events[1].summary,
                    "Let's get ready with some good vibes.">>
        ELSE IF isMorning
        THEN IF hasArtist
             THEN <<"Good morning! No meetings right now, so let's flow with">> \o artistName
                    \o <<"Time to make things happen!">>
             ELSE <<randomIntro, "You've got some free time this morning. Perfect for deep work. Let's get it!">>
        ELSE IF dayPart = "afternoon" /\ Len(events) > 0
        THEN IF hasArtist
             THEN <<"Quick heads up -", events[1].summary, "coming soon. But first, jamming out to">>
                    \o artistName \o <<"Stay focused!">>
             ELSE <<"Afternoon check-in! You've got", events[1].summary,
                    "on deck. Here's some energy to keep you sharp.">>
        ELSE IF dayPart = "afternoon"
        THEN IF hasArtist
             THEN <<randomIntro, "Afternoon vibes with">> \o artistName \o <<"You're crushing it today!">>
             ELSE <<"Afternoon energy! You're in the flow. Keep that momentum going strong!">>
        ELSE \* evening or night: getDayPart returns nothing else, the default messages are dead code
             IF Len(events) > 0
             THEN <<"Evening mode! Still got", events[1].summary, "on your calendar. Let's finish strong.">>
             ELSE IF hasArtist
             THEN <<"Evening vibes! Winding down with">> \o artistName \o <<"You earned this.">>
             ELSE <<"Evening session! Time to relax and recharge. Great work today!">>

(***************************************************************************)
(* Dashboard block builder: src/app/dashboard/page.tsx                     *)
(***************************************************************************)
\* the dashboard's own day parts, keys of trackPools
DashDayPart(hour) ==
    IF hour < 8 THEN "early"
    ELSE IF hour < 12 THEN "morning"
    ELSE IF hour < 17 THEN "afternoon"
    ELSE IF hour < 21 THEN "evening"
    ELSE "night"

trackPools(dayPart) ==
    CASE dayPart = "early" ->
            <<"spotify:track:3n3Ppam7vgaVa1iaRUc9Lp", "spotify:track:60nZcImufyMA1MKQY3dcCH",
              "spotify:track:1Je1IMUz1HqjHB5cA8aEVi">>
      [] dayPart = "morning" ->
            <<"spotify:track:0VjIjW4GlUZAMYd2vXMi3b", "spotify:track:5HCyWlXZPP0y6Gqq8TgA20",
              "spotify:track:3WMj8moIAXJhHsyLaqIIHI">>
      [] dayPart = "afternoon" ->
            <<"spotify:track:4cOdK2wGLETKBW3PvgPWqT", "spotify:track:2Fxmhks0bxGSBdJ92vM42m",
              "spotify:track:7qEHsqek33rTcFNT9PFqLf">>
      [] dayPart = "evening" ->
            <<"spotify:track:3n3Ppam7vgaVa1iaRUc9Lp", "spotify:track:6DCZcSspjsKoFjzjrWoCdn",
              "spotify:track:0DiWol3AO6WpXZgp0goxAV">>
      [] dayPart = "night" ->
            <<"spotify:track:60nZcImufyMA1MKQY3dcCH", "spotify:track:1Je1IMUz1HqjHB5cA8aEVi",
              "spotify:track:3WMj8moIAXJhHsyLaqIIHI">>

\* start of block index: the 30-second (demo) or 30-minute boundary of t, plus index blocks
DemoBlockStart(t, index, demoMode) ==
    IF demoMode
    THEN LET boundary == setSeconds0(t, (getSeconds(t) \div 30) * 30)
         IN  setSeconds(boundary, getSeconds(boundary) + index * 30)
    ELSE LET boundary == setMinutes00(t, (getMinutes(t) \div 30) * 30)
         IN  setMinutes(boundary, getMinutes(boundary) + index * 30)

DemoBlockEnd(start, demoMode) ==
    IF demoMode THEN setSeconds(start, getSeconds(start) + 30)
    ELSE setMinutes(start, getMinutes(start) + 30)

\* selectedTracks: two tracks of the user's library, or of the day part's curated pool
SelectedTracks(index, hour, userLibrary) ==
    IF Len(userLibrary) > 0
    THEN <<userLibrary[((index * 2) % Len(userLibrary)) + 1].uri,
           userLibrary[((index * 2 + 1) % Len(userLibrary)) + 1].uri>>
    ELSE LET availableTracks == trackPools(DashDayPart(hour))
         IN  <<availableTracks[((index * 2) % Len(availableTracks)) + 1],
               availableTracks[((index * 2 + 1) % Len(availableTracks)) + 1]>>

\* the timings table of createSingleDemoBlock
DemoTimings(demoMode) ==
    IF demoMode
    THEN [voiceTiming |-> 0, voiceDuration |-> 3, firstMusic |-> 3, firstMusicDuration |-> 12,
          secondMusic |-> 15, secondMusicDuration |-> 15]
    ELSE [voiceTiming |-> 0, voiceDuration |-> 30, firstMusic |-> 30, firstMusicDuration |-> 800,
          secondMusic |-> 830, secondMusicDuration |-> 770]

moodRotation == <<"focus", "ambient", "energetic", "upbeat", "calm">>

\* userLibrary.find(t => t.uri === trackUri)?.artists?.[0]?.name, <<>> when undefined
RECURSIVE ArtistOf(_, _)
ArtistOf(userLibrary, trackUri) ==
    IF userLibrary = <<>> THEN <<>>
    ELSE IF Head(userLibrary).uri = trackUri THEN <<Head(userLibrary).artist>>
         ELSE ArtistOf(Tail(userLibrary), trackUri)

\* events.filter(e => eventStart >= start && eventStart < end)
RECURSIVE EventsIn(_, _, _)
EventsIn(events, start, end) ==
    IF events = <<>> THEN <<>>
    ELSE IF Head(events).start >= start /\ Head(events).start < end
         THEN <<Head(events)>> \o EventsIn(Tail(events), start, end)
         ELSE EventsIn(Tail(events), start, end)

\* createSingleDemoBlock(index), run at wall-clock time t
createSingleDemoBlock(index, t, demoMode, userLibrary, events) ==
    LET start == DemoBlockStart(t, index, demoMode)
        end == DemoBlockEnd(start, demoMode)
        hour == getHours(start)
        selectedTracks == SelectedTracks(index, hour, userLibrary)
        timings == DemoTimings(demoMode)
        selectedMood == moodRotation[((index + hour) % Len(moodRotation)) + 1]
        artistName == ArtistOf(userLibrary, selectedTracks[1])
        voiceText == generateVoiceContent(start, EventsIn(events, start, end), index, artistName)
    IN  [id |-> <<"demo-block", index>>,
         startTime |-> start,
         endTime |-> end,
         strategy |-> [musicStyle |-> selectedMood,
                       musicVolume |-> "0.7",
                       voiceFrequency |-> "moderate",
                       interruptionLevel |-> "low",
                       reasoning |-> <<DashDayPart(hour), selectedMood, "session">>],
         voiceContent |->
            << [id |-> <<"voice-intro", index>>,
                timing |-> timings.voiceTiming,
                content |-> voiceText,
                duration |-> timings.voiceDuration,
                priority |-> "high"] >>
            \o (IF demoMode
                THEN << [id |-> <<"voice-transition", index>>,
                         timing |-> timings.firstMusic + timings.firstMusicDuration,
                         content |-> <<"Coming up next -">>
                                     \o (IF artistName # <<>> THEN artistName
                                         ELSE <<"another great track">>) \o <<"!">>,
                         duration |-> 2,
                         priority |-> "medium"] >>
                ELSE <<>>),
         musicContent |->
            << [timing |-> timings.firstMusic,
                duration |-> timings.firstMusicDuration,
                spotifyUri |-> selectedTracks[1],
                volume |-> "0.7", fadeIn |-> "1", fadeOut |-> "0.5"],
               [timing |-> timings.secondMusic,
                duration |-> timings.secondMusicDuration,
                spotifyUri |-> selectedTracks[2],
                volume |-> "0.7", fadeIn |-> "0.5", fadeOut |-> "1"] >>,
         generatedAt |-> t]

\* number of blocks createAllDemoBlocks builds
DEMO_BLOCKS == 24

\* createAllDemoBlocks: 24 calls of createSingleDemoBlock, each sampling the clock itself;
\* sampleAt[i] is the wall-clock time at which block i is built
createAllDemoBlocks(sampleAt, demoMode, userLibrary, events) ==
    [k \in 1..DEMO_BLOCKS |->
        createSingleDemoBlock(k - 1, sampleAt[k - 1], demoMode, userLibrary, events)]

\* all 24 blocks built within the same millisecond
SameInstant(t) == [i \in 0..(DEMO_BLOCKS - 1) |-> t]

(***************************************************************************)
(* Live playback locator: src/lib/radioStation.ts                          *)
(***************************************************************************)
\* the allSegments entry pushed for a music segment
MusicItem(music) ==
    [type |-> "music", segment |-> music,
     startTime |-> music.timing, endTime |-> music.timing + music.duration]

\* the allSegments entry pushed for a voice segment
VoiceItem(voice) ==
    [type |-> "voice", segment |-> voice,
     startTime |-> voice.timing, endTime |-> voice.timing + voice.duration]

\* allSegments before the sort: every music segment, then every voice segment
AllSegments(block) ==
    [i \in 1..Len(block.musicContent) |-> MusicItem(block.musicContent[i])]
        \o [i \in 1..Len(block.voiceContent) |-> VoiceItem(block.voiceContent[i])]

\* one step of the stable sort: item goes after every entry that does not start later
RECURSIVE InsertByStart(_, _)
InsertByStart(item, sorted) ==
    IF sorted = <<>> THEN <<item>>
    ELSE IF sorted[Len(sorted)].startTime <= item.startTime
         THEN Append(sorted, item)
         ELSE Append(InsertByStart(item, SubSeq(sorted, 1, Len(sorted) - 1)),
                     sorted[Len(sorted)])

\* allSegments.sort((a, b) => a.startTime - b.startTime); Array.prototype.sort is stable
RECURSIVE SortByStartTime(_)
SortByStartTime(items) ==
    IF items = <<>> THEN <<>>
    ELSE InsertByStart(items[Len(items)],
                       SortByStartTime(SubSeq(items, 1, Len(items) - 1)))

\* a plausible slip: the elapsed time is rounded to the nearest second
ElapsedSeconds_Rounded(block, t) == (t - block.startTime + 500) \div MS_PER_SECOND

\* elapsedSeconds = Math.floor((now - blockStart) / 1000)
ElapsedSeconds(block, t) == (t - block.startTime) \div MS_PER_SECOND

\* blockDuration = Math.floor((blockEnd - blockStart) / 1000)
BlockDuration(block) == (block.endTime - block.startTime) \div MS_PER_SECOND

\* the not-live / gap object
NotLive(totalElapsed) ==
    [currentSegment |-> Null, segmentType |-> "null",
     positionInSegment |-> 0, totalElapsed |-> totalElapsed]

\* the loop test: elapsedSeconds >= item.startTime && elapsedSeconds < item.endTime
ItemCovers(item, elapsed) == elapsed >= item.startTime /\ elapsed < item.endTime

\* a plausible slip: the position is counted from the block's start
RECURSIVE FindPlaying_FromBlockStart(_, _)
FindPlaying_FromBlockStart(items, elapsed) ==
    IF items = <<>> THEN NotLive(elapsed)
    ELSE IF ItemCovers(Head(items), elapsed)
         THEN [currentSegment |-> Head(items).segment,
               segmentType |-> Head(items).type,
               positionInSegment |-> elapsed,
               totalElapsed |-> elapsed]
         ELSE FindPlaying_FromBlockStart(Tail(items), elapsed)

\* the for-loop over the sorted segments: the first entry that covers elapsed, else the gap object
RECURSIVE FindPlaying(_, _)
FindPlaying(items, elapsed) ==
    IF items = <<>> THEN NotLive(elapsed)
    ELSE IF ItemCovers(Head(items), elapsed)
         THEN [currentSegment |-> Head(items).segment,
               segmentType |-> Head(items).type,
               positionInSegment |-> elapsed - Head(items).startTime,
               totalElapsed |-> elapsed]
         ELSE FindPlaying(Tail(items), elapsed)

\* the block-has-ended test
BlockEnded(elapsed, blockDuration) == elapsed >= blockDuration

getCurrentPlaybackPosition(block, t) ==
    LET elapsedSeconds == ElapsedSeconds(block, t)
    IN  IF elapsedSeconds < 0 THEN NotLive(0)
        ELSE IF BlockEnded(elapsedSeconds, BlockDuration(block)) THEN NotLive(elapsedSeconds)
        ELSE FindPlaying(SortByStartTime(AllSegments(block)), elapsedSeconds)

(***************************************************************************)
(* Session store: src/lib/broadcastSession.ts                              *)
(***************************************************************************)
SESSION_DURATION_HOURS == 12

\* JSON.stringify / JSON.parse of a session: strings, numbers and arrays only, so the
\* parsed value has the fields that were written
JSONstringify(value) == [json |-> value]
JSONparse(text) == text.json

\* the validity test of getOrCreateSession: now < expiresAt
SessionValid(session, t) == t < session.expiresAt

\* expiresAt.setHours(expiresAt.getHours() + SESSION_DURATION_HOURS)
ExpiryOf(t) == setHours(t, getHours(t) + SESSION_DURATION_HOURS)

\* a plausible slip: a valid stored session is returned with its expiry pushed forward
getOrCreateSession_Touch(stored, blocks, t) ==
    IF stored # Null /\ SessionValid(JSONparse(stored), t)
    THEN LET touched == [JSONparse(stored) EXCEPT !.expiresAt = ExpiryOf(t)]
         IN  [session |-> touched, storage |-> JSONstringify(touched)]
    ELSE IF Len(blocks) > 0
    THEN LET session == [id |-> <<"session", t>>,
                         startTime |-> blocks[1].startTime,
                         blocks |-> blocks,
                         voiceFiles |-> <<>>,
                         createdAt |-> t,
                         expiresAt |-> ExpiryOf(t)]
         IN  [session |-> session, storage |-> JSONstringify(session)]
    ELSE [session |-> Null, storage |-> stored]

\* a plausible slip: a stored session still counts as valid at its expiry instant
getOrCreateSession_InclusiveExpiry(stored, blocks, t) ==
    IF stored # Null /\ t <= JSONparse(stored).expiresAt
    THEN [session |-> JSONparse(stored), storage |-> stored]
    ELSE IF Len(blocks) > 0
    THEN LET session == [id |-> <<"session", t>>,
                         startTime |-> blocks[1].startTime,
                         blocks |-> blocks,
                         voiceFiles |-> <<>>,
                         createdAt |-> t,
                         expiresAt |-> ExpiryOf(t)]
         IN  [session |-> session, storage |-> JSONstringify(session)]
    ELSE [session |-> Null, storage |-> stored]

\* a plausible slip: blocks handed in always make a new session, so the second writer wins
getOrCreateSession_SecondWriteWins(stored, blocks, t) ==
    IF Len(blocks) > 0
    THEN LET session == [id |-> <<"session", t>>,
                         startTime |-> blocks[1].startTime,
                         blocks |-> blocks,
                         voiceFiles |-> <<>>,
                         createdAt |-> t,
                         expiresAt |-> ExpiryOf(t)]
         IN  [session |-> session, storage |-> JSONstringify(session)]
    ELSE IF stored # Null /\ SessionValid(JSONparse(stored), t)
    THEN [session |-> JSONparse(stored), storage |-> stored]
    ELSE [session |-> Null, storage |-> stored]

\* getOrCreateSession(blocks) at time t against the stored item: what it returns and
\* what the storage holds afterwards
getOrCreateSession(stored, blocks, t) ==
    IF stored # Null /\ SessionValid(JSONparse(stored), t)
    THEN [session |-> JSONparse(stored), storage |-> stored]
    ELSE IF Len(blocks) > 0
    THEN LET session == [id |-> <<"session", t>>,
                         startTime |-> blocks[1].startTime,
                         blocks |-> blocks,
                         voiceFiles |-> <<>>,
                         createdAt |-> t,
                         expiresAt |-> ExpiryOf(t)]
         IN  [session |-> session, storage |-> JSONstringify(session)]
    ELSE [session |-> Null, storage |-> stored]

\* a plausible slip: the session counts as expired only after expiresAt
shouldRegenerateSession_Strict(session, calendarEventCount, t) == t > session.expiresAt

\* shouldRegenerateSession(session, calendarEventCount) at time t
shouldRegenerateSession(session, calendarEventCount, t) == t >= session.expiresAt

\* createNewSession(blocks): removeItem, then getOrCreateSession
createNewSession(stored, blocks, t) == getOrCreateSession(Null, blocks, t)

(***************************************************************************)
(* getCurrentBlock: src/lib/radioStation.ts                                *)
(***************************************************************************)
\* a plausible slip: a block still counts at its end instant
RECURSIVE getCurrentBlock_InclusiveEnd(_, _)
getCurrentBlock_InclusiveEnd(blocks, t) ==
    IF blocks = <<>> THEN Null
    ELSE IF t >= Head(blocks).startTime /\ t <= Head(blocks).endTime THEN Head(blocks)
         ELSE getCurrentBlock_InclusiveEnd(Tail(blocks), t)

RECURSIVE getCurrentBlock(_, _)
getCurrentBlock(blocks, t) ==
    IF blocks = <<>> THEN Null
    ELSE IF t >= Head(blocks).startTime /\ t < Head(blocks).endTime THEN Head(blocks)
         ELSE getCurrentBlock(Tail(blocks), t)

(***************************************************************************)
(* The collaborators of one generateBlockSchedule run                      *)
(***************************************************************************)
\* longest track list the catalog returns
MaxTracks == 6

\* number of catalog / content-generation variations tried per run
MaxSeed == 1

\* what the music catalog can return: track lengths below a second, around the
\* assumed three minutes, equal to a music window and longer than the block
TrackPool ==
    << [uri |-> "spotify:track:t200", duration_ms |-> 200000],
       [uri |-> "spotify:track:t0", duration_ms |-> 500],
       [uri |-> "spotify:track:t2000", duration_ms |-> 2000000],
       [uri |-> "spotify:track:t180", duration_ms |-> 180000],
       [uri |-> "spotify:track:t179", duration_ms |-> 179999],
       [uri |-> "spotify:track:t900", duration_ms |-> 900000],
       [uri |-> "spotify:track:t780", duration_ms |-> 780000],
       [uri |-> "spotify:track:t61", duration_ms |-> 61000] >>

TrackList(seed, len) ==
    [k \in 1..len |-> TrackPool[((seed + k) % Len(TrackPool)) + 1]]

\* JSON the content-generation model can answer with; timing and duration are its own guesses
AiResponses ==
    << [strategy |-> [musicStyle |-> "focus", musicVolume |-> "0.5", voiceFrequency |-> "none",
                      interruptionLevel |-> "none", reasoning |-> "deep work"],
        voiceContent |-> <<>>],
       [strategy |-> [musicStyle |-> "ambient", musicVolume |-> "0.4", voiceFrequency |-> "minimal",
                      interruptionLevel |-> "low", reasoning |-> "before meeting"],
        voiceContent |-> << [timing |-> 0, content |-> <<"Your meeting starts soon">>,
                             priority |-> "high", duration |-> 30] >>],
       [strategy |-> [musicStyle |-> "energetic", musicVolume |-> "0.8", voiceFrequency |-> "moderate",
                      interruptionLevel |-> "medium", reasoning |-> "free morning"],
        voiceContent |-> << [timing |-> 100, content |-> <<"Good morning">>,
                             priority |-> "medium", duration |-> 5000],
                            [timing |-> 100, content |-> <<"News highlights">>,
                             priority |-> "low", duration |-> 20] >>],
       [strategy |-> [musicStyle |-> "silent", musicVolume |-> "0.0", voiceFrequency |-> "minimal",
                      interruptionLevel |-> "none", reasoning |-> "in a call"],
        voiceContent |-> << [timing |-> 0, content |-> <<>>,
                             priority |-> "low", duration |-> 10],
                            [timing |-> 900, content |-> <<"Calendar preview">>,
                             priority |-> "low", duration |-> 45] >>],
       [strategy |-> [musicStyle |-> "calm", musicVolume |-> "0.6", voiceFrequency |-> "active",
                      interruptionLevel |-> "high", reasoning |-> "late evening"],
        voiceContent |-> << [timing |-> 0, content |-> <<"Evening">>, priority |-> "high", duration |-> 15],
                            [timing |-> 600, content |-> <<"Reminder">>, priority |-> "medium", duration |-> 15],
                            [timing |-> 1790, content |-> <<"Good night">>, priority |-> "low", duration |-> 60] >>] >>

\* the collaborator calls generateRadioBlock makes, in order
FailKinds == {"calendar", "news", "ai", "tts", "catalog"}
RotatingKinds == <<"none", "calendar", "news", "ai", "tts", "catalog">>

\* which collaborator, if any, fails while block i is generated
FailureAt(env, i) ==
    CASE env.pattern = "none" -> "none"
      [] env.pattern = "all" -> env.kind
      [] env.pattern = "only" -> IF i = env.idx THEN env.kind ELSE "none"
      [] env.pattern = "allbut" -> IF i = env.idx THEN "none" ELSE env.kind
      [] env.pattern = "rotate" -> RotatingKinds[((i + env.idx) % Len(RotatingKinds)) + 1]

EnvFor(env, i) ==
    LET failure == FailureAt(env, i)
    IN  [calendarOk |-> failure # "calendar",
         newsOk |-> failure # "news",
         aiOk |-> failure # "ai",
         ttsFails |-> IF failure = "tts" THEN {1, 2} ELSE {},
         catalogOk |-> failure # "catalog",
         ai |-> AiResponses[((i + env.seed) % Len(AiResponses)) + 1],
         tracks |-> TrackList(i + env.seed, (i + env.seed) % (MaxTracks + 1))]

SchedEnvs ==
    [pattern : {"none"}, kind : {"calendar"}, idx : {0}, seed : 0..MaxSeed, tickAt : {-1, 3}]
    \cup [pattern : {"all"}, kind : FailKinds, idx : {0}, seed : 0..MaxSeed, tickAt : {-1}]
    \cup [pattern : {"only", "allbut"}, kind : FailKinds, idx : 0..(BLOCKS_TO_GENERATE - 1),
          seed : 0..MaxSeed, tickAt : {-1}]
    \cup [pattern : {"rotate"}, kind : {"calendar"}, idx : 0..(Len(RotatingKinds) - 1),
          seed : 0..MaxSeed, tickAt : {-1, 3}]

\* 09:07:13.500 (inside a block), 09:30:00.000 (on a boundary), 23:52:00.250 (the run crosses midnight)
SchedNows ==
    { 9 * MS_PER_HOUR + 7 * MS_PER_MINUTE + 13500,
      9 * MS_PER_HOUR + 30 * MS_PER_MINUTE,
      23 * MS_PER_HOUR + 52 * MS_PER_MINUTE + 250 }

(***************************************************************************)
(* generateBlockSchedule, one loop iteration per step                      *)
(***************************************************************************)
\* the browser tabs
Tabs == {1, 2}

\* a Dashboard component before its first effect ran: the useState initial values
DashInitial(userLibrary, events) ==
    [pc |-> "init",                 \* "init", "building", "ready" or "failed"
     session |-> Null,              \* generateBlocks' let session
     newBlocks |-> <<>>,            \* generateBlocks' const newBlocks
     blocks |-> <<>>,
     currentBlock |-> Null,
     livePosition |-> Null,
     hasInteracted |-> FALSE,
     demoMode |-> TRUE,
     userLibrary |-> userLibrary,   \* as fetchUserLibrary left it
     events |-> events]             \* as fetchCalendarEvents left it

PlayerInitial == [deviceId |-> "", timer |-> Null, played |-> Null]

DashIdle ==
    /\ storage = Null
    /\ dash = [c \in Tabs |-> DashInitial(<<>>, <<>>)]
    /\ player = PlayerInitial
    /\ ticks = 0

\* the requests that can be in getOrCreateTimeline at once
Requests == {1, 2}

\* no timeline row yet, no request under way
NoTimeline == [timeline |-> Null, items |-> {}, nextId |-> 1, requests |-> 0]

TlIdle == db = NoTimeline /\ calls = [c \in Requests |-> [pc |-> "idle"]]

\* the readers of the persisted session
Readers == {1, 2}

ReadIdle == readers = [r \in Readers |-> Null]

GenIdle == gen = [pc |-> "idle"]

PlayIdle == play = [pc |-> "idle"] /\ voiceCache = [items |-> {}, heard |-> Null]

SchedIdle == sNow = 0 /\ sI = 0 /\ sBlocks = <<>> /\ sPc = "idle" /\ sEnv = Null
LocIdle == lBlock = Null /\ lResult = NoResult

\* const now = new Date(); blocks = []
SchedInit ==
    /\ now \in SchedNows
    /\ sNow = now
    /\ sI = 0
    /\ sBlocks = <<>>
    /\ sPc = "loop"
    /\ sEnv \in SchedEnvs
    /\ LocIdle
    /\ DashIdle
    /\ TlIdle
    /\ ReadIdle
    /\ GenIdle
    /\ PlayIdle

SchedFrame == UNCHANGED <<locVars, dashVars, tlVars, readers, gen, play, voiceCache>>

\* the try body of iteration sI
RadioBlockResult ==
    generateRadioBlock(BlockStartOf(sNow, sI), BlockEndOf(BlockStartOf(sNow, sI)),
                       EnvFor(sEnv, sI), now)

\* generateRadioBlock resolved: blocks.push(block)
GenerateBlockOk ==
    /\ sPc = "loop"
    /\ sI < BLOCKS_TO_GENERATE
    /\ ~RadioBlockResult.threw
    /\ sBlocks' = Append(sBlocks, RadioBlockResult.block)
    /\ sI' = sI + 1
    /\ UNCHANGED <<now, sNow, sPc, sEnv>>
    /\ SchedFrame

\* generateRadioBlock rejected: the catch clause
GenerateBlockFailed ==
    /\ sPc = "loop"
    /\ sI < BLOCKS_TO_GENERATE
    /\ RadioBlockResult.threw
    /\ LET caught == CatchBlockFailure(sBlocks, BlockStartOf(sNow, sI),
                                       BlockEndOf(BlockStartOf(sNow, sI)), sI,
                                       RadioBlockResult.partial, now)
       IN  /\ sBlocks' = caught.blocks
           /\ sPc' = caught.pc
    /\ sI' = sI + 1
    /\ UNCHANGED <<now, sNow, sEnv>>
    /\ SchedFrame

\* return blocks
ReturnSchedule ==
    /\ sPc = "loop"
    /\ sI = BLOCKS_TO_GENERATE
    /\ sPc' = "done"
    /\ UNCHANGED <<now, sNow, sI, sBlocks, sEnv>>
    /\ SchedFrame

\* the collaborators are awaited: the wall clock moves on while the run is suspended
SchedClockAdvance ==
    /\ sPc = "loop"
    /\ sI = sEnv.tickAt
    /\ now = sNow
    /\ now' = now + 31 * MS_PER_MINUTE
    /\ UNCHANGED schedVars
    /\ SchedFrame

SchedNext == GenerateBlockOk \/ GenerateBlockFailed \/ ReturnSchedule \/ SchedClockAdvance

SpecSchedule == SchedInit /\ [][SchedNext]_vars

(***************************************************************************)
(* Block validity (spec section 3): containment and non-overlap            *)
(***************************************************************************)
Max(a, b) == IF a > b THEN a ELSE b

\* the half-open ranges [startTime, endTime) of two entries share an offset
RangesIntersect(a, b) == Max(a.startTime, b.startTime) < Min(a.endTime, b.endTime)

NoOverlap(block) ==
    LET items == SortByStartTime(AllSegments(block))
    IN  \A i, j \in 1..Len(items) : i < j => ~RangesIntersect(items[i], items[j])

Contained(block) ==
    LET items == AllSegments(block)
    IN  \A i \in 1..Len(items) :
            items[i].startTime >= 0 /\ items[i].endTime * MS_PER_SECOND <= block.endTime - block.startTime

IsFallbackShape(block) ==
    /\ block.id[1] = "fallback-block"
    /\ block.voiceContent = <<>>
    /\ Len(block.musicContent) = 1
    /\ block.musicContent[1].timing = 0
    /\ block.musicContent[1].duration * MS_PER_SECOND = block.endTime - block.startTime

(***************************************************************************)
(* Properties of generateBlockSchedule (SpecSchedule)                      *)
(***************************************************************************)
\* C4: every block of the schedule, built by generateRadioBlock or by createFallbackBlock
\* from any track list, has no two segments with intersecting [timing, timing+duration)
\* ranges, and every segment ends at or before the block duration, which is 1800 s.
C4_BlocksValid ==
    \A k \in 1..Len(sBlocks) :
        /\ sBlocks[k].endTime - sBlocks[k].startTime = 1800 * MS_PER_SECOND
        /\ NoOverlap(sBlocks[k])
        /\ Contained(sBlocks[k])

\* a finished schedule holding a fallback block, and a radio block with both voice breaks
\* whose music was cut to fit its window
C4_Witness ==
    /\ sPc = "done"
    /\ \E k \in 1..Len(sBlocks) : sBlocks[k].id[1] = "fallback-block"
    /\ \E k \in 1..Len(sBlocks) :
          /\ sBlocks[k].id[1] = "block"
          /\ Len(sBlocks[k].voiceContent) = 2
          /\ \E m \in 1..Len(sBlocks[k].musicContent) :
                /\ sBlocks[k].musicContent[m].timing + sBlocks[k].musicContent[m].duration = 780
                /\ sBlocks[k].musicContent[m].spotifyUri = "spotify:track:t2000"

\* C5: consecutive blocks abut, each block lasts exactly 30 minutes, and the first block
\* starts on the :00/:30 boundary at or before the generation time, so that the
\* generation time lies inside the first block.
C5_ContiguousAligned ==
    /\ \A k \in 1..Len(sBlocks) :
          sBlocks[k].endTime - sBlocks[k].startTime = 30 * MS_PER_MINUTE
    /\ \A k \in 1..(Len(sBlocks) - 1) : sBlocks[k].endTime = sBlocks[k + 1].startTime
    /\ Len(sBlocks) > 0 =>
          /\ sBlocks[1].startTime % (30 * MS_PER_MINUTE) = 0
          /\ sBlocks[1].startTime <= sNow
          /\ sNow < sBlocks[1].endTime

\* the 09:07 run finished: first block 09:00-09:30, 24 blocks, while the clock moved on
C5_Witness ==
    /\ sPc = "done"
    /\ Len(sBlocks) = 24
    /\ sNow = 9 * MS_PER_HOUR + 7 * MS_PER_MINUTE + 13500
    /\ sBlocks[1].startTime = 9 * MS_PER_HOUR
    /\ sBlocks[1].endTime = 9 * MS_PER_HOUR + 30 * MS_PER_MINUTE
    /\ now > sNow

\* C6: generateBlockSchedule never throws and returns exactly 24 blocks in index order
\* under every pattern of collaborator failures; when content generation fails for
\* every block, every returned block is a valid fallback block.
C6_AlwaysTwentyFour ==
    /\ sPc # "threw"
    /\ sPc = "done" =>
          /\ Len(sBlocks) = 24
          /\ \A k \in 1..Len(sBlocks) :
                sBlocks[k].startTime = sBlocks[1].startTime + (k - 1) * 30 * MS_PER_MINUTE
          /\ (sEnv.pattern = "all" /\ sEnv.kind = "ai") =>
                \A k \in 1..Len(sBlocks) :
                    IsFallbackShape(sBlocks[k]) /\ NoOverlap(sBlocks[k]) /\ Contained(sBlocks[k])

\* the run in which content generation failed for every block has returned
C6_Witness ==
    /\ sPc = "done"
    /\ sEnv.pattern = "all"
    /\ sEnv.kind = "ai"
    /\ Len(sBlocks) = 24

\* the collaborator failures that make generateRadioBlock reject; a news failure is
\* absorbed by getTopHeadlines and a speech failure by generateMultipleSpeechSegments
Rejecting == {"calendar", "ai", "catalog"}

LocateT == 9 * MS_PER_HOUR

\* the block of the spec's scenario: voice {0,30}, music {30,770}, 800 s long
ScenarioBlock ==
    [id |-> <<"block", LocateT>>,
     startTime |-> LocateT,
     endTime |-> LocateT + 800 * MS_PER_SECOND,
     strategy |-> AiResponses[1].strategy,
     voiceContent |-> << [id |-> <<"voice", LocateT, 0>>, timing |-> 0, content |-> <<"Welcome">>,
                          duration |-> 30, priority |-> "high"] >>,
     musicContent |-> << [timing |-> 30, duration |-> 770, spotifyUri |-> "spotify:track:t2000",
                          volume |-> "0.7"] >>,
     generatedAt |-> LocateT]

\* blocks the program builds: the dashboard's demo and production blocks, a radio block
\* whose short tracks leave silence in both music windows, a fallback block
LocateBlocks ==
    << ScenarioBlock,
       createSingleDemoBlock(0, LocateT + 7300, TRUE, <<>>, <<>>),
       createSingleDemoBlock(1, LocateT + 7300, FALSE, <<>>, <<>>),
       generateRadioBlock(LocateT, BlockEndOf(LocateT),
                          [calendarOk |-> TRUE, newsOk |-> TRUE, aiOk |-> TRUE, ttsFails |-> {},
                           catalogOk |-> TRUE, ai |-> AiResponses[3], tracks |-> TrackList(7, 3)],
                          LocateT).block,
       createFallbackBlock(LocateT, BlockEndOf(LocateT), 2, LocateT) >>

\* offsets of the clock inside a second
SubSecond == {0, 500}

\* elapsed seconds worth looking at: around the block's ends, around every segment's
\* ends, and the scenario's 15, 100 and 900
LocateElapsed(block) ==
    LET items == AllSegments(block)
        edges == {0, BlockDuration(block), 15, 100, 900}
                    \cup {items[i].startTime : i \in 1..Len(items)}
                    \cup {items[i].endTime : i \in 1..Len(items)}
    IN  {e + d : e \in edges, d \in {-2, -1, 0, 1}}

LocInit ==
    /\ \E b \in 1..Len(LocateBlocks) :
          /\ lBlock = LocateBlocks[b]
          /\ now \in {lBlock.startTime + e * MS_PER_SECOND + f :
                        e \in LocateElapsed(lBlock), f \in SubSecond}
    /\ lResult = NoResult
    /\ SchedIdle
    /\ DashIdle
    /\ TlIdle
    /\ ReadIdle
    /\ GenIdle
    /\ PlayIdle

LocFrame == UNCHANGED <<schedVars, dashVars, tlVars, readers, gen, play, voiceCache>>

\* position = getCurrentPlaybackPosition(block)
Locate ==
    /\ lResult = NoResult
    /\ lResult' = getCurrentPlaybackPosition(lBlock, now)
    /\ UNCHANGED <<now, lBlock>>
    /\ LocFrame

LocNext == Locate

SpecLocate == LocInit /\ [][LocNext]_vars

(***************************************************************************)
(* Properties of getCurrentPlaybackPosition (SpecLocate)                   *)
(***************************************************************************)
\* the voice and music segments of the block, tagged with their type
TaggedSegments(block) ==
    {[type |-> "voice", segment |-> block.voiceContent[i]] : i \in 1..Len(block.voiceContent)}
    \cup {[type |-> "music", segment |-> block.musicContent[i]] : i \in 1..Len(block.musicContent)}

\* whole seconds since the block's start
WholeSecondsSince(start, t) ==
    CHOOSE e \in -10..2000 : start + e * 1000 <= t /\ t < start + (e + 1) * 1000

\* timing <= elapsed < timing + duration
Covers(tagged, elapsed) ==
    tagged.segment.timing <= elapsed /\ elapsed < tagged.segment.timing + tagged.segment.duration

Covering(block, elapsed) == {s \in TaggedSegments(block) : Covers(s, elapsed)}

\* the result says: this segment, of this type, at elapsed - timing
ReturnsSegment(result, tagged, elapsed) ==
    /\ result.currentSegment = tagged.segment
    /\ result.segmentType = tagged.type
    /\ result.positionInSegment = elapsed - tagged.segment.timing
    /\ result.totalElapsed = elapsed

InsideBlock(block, elapsed) ==
    0 <= elapsed /\ elapsed * 1000 < block.endTime - block.startTime

IsNotLiveResult(result) ==
    /\ result.currentSegment = Null
    /\ result.segmentType = "null"
    /\ result.positionInSegment = 0

\* C2: the result is the not-live result exactly when the time is before the block's
\* start, at or after its end, or at an offset no segment covers; otherwise it is one
\* segment of the block. The call always returns.
C2_NotLiveExactly ==
    lResult # NoResult =>
        LET elapsed == WholeSecondsSince(lBlock.startTime, now)
            outside == now < lBlock.startTime \/ now >= lBlock.endTime
            gap == Covering(lBlock, elapsed) = {}
        IN  /\ IsNotLiveResult(lResult) <=> (outside \/ gap)
            /\ ~IsNotLiveResult(lResult) =>
                  \E s \in TaggedSegments(lBlock) :
                      lResult.currentSegment = s.segment /\ lResult.segmentType = s.type

\* half a second before the start of a block whose first segment starts at 0: not live
C2_Witness ==
    /\ lBlock = ScenarioBlock
    /\ now = LocateT - 500
    /\ lResult # NoResult
    /\ IsNotLiveResult(lResult)

(***************************************************************************)
(* Dashboard: src/app/dashboard/page.tsx, and the playback effect of       *)
(* src/components/SpotifyPlayer.tsx                                        *)
(***************************************************************************)
\* the render whose generateBlocks the mount effect calls: the effect is created while
\* userLibrary, events and demoMode still hold their useState initial values
MountRender == [demoMode |-> TRUE, userLibrary |-> <<>>, events |-> <<>>]

\* the render an onClick handler closes over: the tab's state when the button is clicked
ClickRender(d) == [demoMode |-> d.demoMode, userLibrary |-> d.userLibrary, events |-> d.events]

\* generateBlocks' else branch: the first block has not started yet
NotStartedPosition == [totalElapsed |-> 0, segmentType |-> "null", positionInSegment |-> 0]

\* generateBlocks STEP 2 and STEP 3 with the session in hand
UseSession(d, session, t) ==
    LET liveBlock == getCurrentBlock(session.blocks, t)
    IN  [d EXCEPT !.pc = "ready",
                  !.session = session,
                  !.blocks = session.blocks,
                  !.currentBlock = IF liveBlock # Null THEN liveBlock ELSE session.blocks[1],
                  !.livePosition = IF liveBlock # Null
                                   THEN getCurrentPlaybackPosition(liveBlock, t)
                                   ELSE NotStartedPosition]

\* the Refresh and demo-toggle handlers after createNewSession returned
ShowNewSession(d, session, t) ==
    LET liveBlock == getCurrentBlock(session.blocks, t)
    IN  [d EXCEPT !.session = session,
                  !.blocks = session.blocks,
                  !.currentBlock = IF liveBlock # Null THEN liveBlock ELSE @,
                  !.livePosition = IF liveBlock # Null
                                   THEN getCurrentPlaybackPosition(liveBlock, t)
                                   ELSE @]

\* ---- SpotifyPlayer playback effect
\* Array.prototype.find over a segment list: the first element satisfying Test, or Null
RECURSIVE FindVoiceAt(_, _)
FindVoiceAt(voiceContent, elapsed) ==
    IF voiceContent = <<>> THEN Null
    ELSE IF elapsed >= Head(voiceContent).timing
            /\ elapsed < Head(voiceContent).timing + Head(voiceContent).duration
         THEN Head(voiceContent)
         ELSE FindVoiceAt(Tail(voiceContent), elapsed)

RECURSIVE FindMusicFrom(_, _)
FindMusicFrom(musicContent, elapsed) ==
    IF musicContent = <<>> THEN Null
    ELSE IF Head(musicContent).timing >= elapsed THEN Head(musicContent)
         ELSE FindMusicFrom(Tail(musicContent), elapsed)

RECURSIVE FindMusicAt(_, _)
FindMusicAt(musicContent, elapsed) ==
    IF musicContent = <<>> THEN Null
    ELSE IF elapsed >= Head(musicContent).timing
            /\ elapsed < Head(musicContent).timing + Head(musicContent).duration
         THEN Head(musicContent)
         ELSE FindMusicAt(Tail(musicContent), elapsed)

\* livePosition?.totalElapsed || 0
CurrentElapsed(livePosition) == IF livePosition = Null THEN 0 ELSE livePosition.totalElapsed

\* the else branch of the effect: the segment and seek offset playTrack is scheduled with
TargetOf(currentBlock, livePosition) ==
    LET first == IF currentBlock.musicContent = <<>> THEN Null
                 ELSE currentBlock.musicContent[1]
        found == IF livePosition # Null /\ livePosition.totalElapsed > 0
                 THEN FindMusicAt(currentBlock.musicContent, livePosition.totalElapsed)
                 ELSE Null
    IN  IF found # Null
        THEN [segment |-> found,
              positionMs |-> (livePosition.totalElapsed - found.timing) * MS_PER_SECOND]
        ELSE [segment |-> first, positionMs |-> 0]

\* one run of the playback effect at time t: the timer it leaves pending, or Null
PlaybackEffect(currentBlock, deviceId, hasInteracted, livePosition, t) ==
    IF currentBlock = Null \/ deviceId = "" \/ ~hasInteracted THEN Null
    ELSE
    LET currentElapsed == CurrentElapsed(livePosition)
        currentVoice == FindVoiceAt(currentBlock.voiceContent, currentElapsed)
        nextMusic == FindMusicFrom(currentBlock.musicContent, currentElapsed)
        hasVoiceFirst == /\ Len(currentBlock.voiceContent) > 0
                         /\ currentBlock.voiceContent[1].timing = 0
                         /\ currentElapsed < 5
        target == TargetOf(currentBlock, livePosition)
    IN  IF currentVoice # Null /\ nextMusic # Null
        THEN [kind |-> "music",
              fireAt |-> t + (currentVoice.timing + currentVoice.duration - currentElapsed)
                                 * MS_PER_SECOND,
              uri |-> nextMusic.spotifyUri, positionMs |-> 0]
        ELSE IF hasVoiceFirst
        THEN [kind |-> "voice",
              fireAt |-> t + MS_PER_SECOND,
              uri |-> IF currentBlock.musicContent = <<>> THEN ""
                      ELSE currentBlock.musicContent[1].spotifyUri,
              positionMs |-> 0]
        ELSE IF target.segment # Null /\ target.segment.spotifyUri # ""
        THEN [kind |-> "music", fireAt |-> t + MS_PER_SECOND,
              uri |-> target.segment.spotifyUri, positionMs |-> target.positionMs]
        ELSE Null

\* the effect's dependency list
EffectDeps(d, deviceId) ==
    << IF d.currentBlock = Null THEN Null ELSE [id |-> d.currentBlock.id],
       deviceId, d.hasInteracted,
       IF d.livePosition = Null THEN Null ELSE [totalElapsed |-> d.livePosition.totalElapsed] >>

\* React after a render of tab 1: when a dependency changed the previous run's cleanup
\* clears its timer and the effect runs again
Rerender(oldDash, newDash, oldPlayer, deviceId, t) ==
    IF EffectDeps(oldDash, oldPlayer.deviceId) = EffectDeps(newDash, deviceId)
    THEN [oldPlayer EXCEPT !.deviceId = deviceId]
    ELSE [oldPlayer EXCEPT !.deviceId = deviceId,
                           !.timer = PlaybackEffect(newDash.currentBlock, deviceId,
                                                    newDash.hasInteracted,
                                                    newDash.livePosition, t)]

\* tab c's state becomes d at time t; the modelled player belongs to tab 1
Render(c, d, t) ==
    /\ dash' = [dash EXCEPT ![c] = d]
    /\ player' = IF c = 1 THEN Rerender(dash[1], d, player, player.deviceId, t) ELSE player

DashFrame == UNCHANGED <<locVars, schedVars, tlVars, readers, gen, play, voiceCache>>

\* ---- start-up: generateBlocks, split at its two storage calls
\* STEP 1, first call: getOrCreateSession([])
StartupCheck(c) ==
    /\ dash[c].pc = "init"
    /\ LET r == getOrCreateSession(storage, <<>>, now)
       IN  /\ storage' = r.storage
           /\ IF r.session # Null
              THEN Render(c, UseSession(dash[c], r.session, now), now)
              ELSE Render(c, [dash[c] EXCEPT !.pc = "building"], now)
    /\ UNCHANGED <<now, ticks>>
    /\ DashFrame

\* STEP 1, the null branch: createAllDemoBlocks, second call, then STEP 2 and STEP 3
StartupCreate(c) ==
    /\ dash[c].pc = "building"
    /\ LET newBlocks == createAllDemoBlocks(SameInstant(now), MountRender.demoMode,
                                            MountRender.userLibrary, MountRender.events)
           r == getOrCreateSession(storage, newBlocks, now)
       IN  /\ storage' = r.storage
           /\ IF r.session # Null
              THEN Render(c, UseSession([dash[c] EXCEPT !.newBlocks = newBlocks],
                                        r.session, now), now)
              ELSE Render(c, [dash[c] EXCEPT !.pc = "failed", !.newBlocks = newBlocks], now)
    /\ UNCHANGED <<now, ticks>>
    /\ DashFrame

\* the Tune In button: setHasInteracted(true)
TuneInClick(c) ==
    /\ dash[c].pc = "ready"
    /\ ~dash[c].hasInteracted
    /\ Render(c, [dash[c] EXCEPT !.hasInteracted = TRUE], now)
    /\ UNCHANGED <<now, storage, ticks>>
    /\ DashFrame

\* the libraries /api/spotify/library can answer with
Libraries ==
    { <<>>,
      << [uri |-> "spotify:track:lib1", artist |-> <<"Nils Frahm">>],
         [uri |-> "spotify:track:lib2", artist |-> <<"Bonobo">>],
         [uri |-> "spotify:track:lib3", artist |-> <<"Tycho">>] >> }

\* the Refresh button: fetchUserLibrary, then blocks built by the clicked render's
\* createAllDemoBlocks, then createNewSession
Refresh(c) ==
    /\ dash[c].pc = "ready"
    /\ dash[c].hasInteracted
    /\ \E fetched \in {[ok |-> TRUE, tracks |-> library] : library \in Libraries}
                       \cup {[ok |-> FALSE]} :
        LET render == ClickRender(dash[c])
            newBlocks == createAllDemoBlocks(SameInstant(now), render.demoMode,
                                             render.userLibrary, render.events)
            r == createNewSession(storage, newBlocks, now)
            d == IF fetched.ok THEN [dash[c] EXCEPT !.userLibrary = fetched.tracks] ELSE dash[c]
        IN  /\ storage' = r.storage
            /\ Render(c, ShowNewSession([d EXCEPT !.newBlocks = newBlocks], r.session, now), now)
    /\ UNCHANGED <<now, ticks>>
    /\ DashFrame

\* the Demo/Live button: setDemoMode(!demoMode), blocks built by the clicked render's
\* createAllDemoBlocks, then createNewSession
ToggleDemoMode(c) ==
    /\ dash[c].pc = "ready"
    /\ dash[c].hasInteracted
    /\ LET render == ClickRender(dash[c])
           newBlocks == createAllDemoBlocks(SameInstant(now), render.demoMode,
                                            render.userLibrary, render.events)
           r == createNewSession(storage, newBlocks, now)
           d == [dash[c] EXCEPT !.demoMode = ~render.demoMode, !.newBlocks = newBlocks]
       IN  /\ storage' = r.storage
           /\ Render(c, ShowNewSession(d, r.session, now), now)
    /\ UNCHANGED <<now, ticks>>
    /\ DashFrame

\* ---- the player of tab 1
\* the Web Playback SDK reports the device: setDeviceId
DeviceReady ==
    /\ player.deviceId = ""
    /\ player' = Rerender(dash[1], dash[1], player, "hymn-device", now)
    /\ UNCHANGED <<now, storage, dash, ticks>>
    /\ DashFrame

\* playTrack(uri, positionMs) with a device and a token: the play request sent at time t
playTrack(uri, positionMs, t) == [uri |-> uri, positionMs |-> positionMs, at |-> t]

\* a timer of the effect that plays a track comes due
MusicTimerFires ==
    /\ player.timer # Null
    /\ player.timer.kind = "music"
    /\ now >= player.timer.fireAt
    /\ player' = [player EXCEPT !.timer = Null,
                                !.played = playTrack(player.timer.uri,
                                                     player.timer.positionMs, now)]
    /\ UNCHANGED <<now, storage, dash, ticks>>
    /\ DashFrame

\* the lengths in seconds of the rendered intro audio, which no code bounds
IntroAudioSeconds == {2, 4}

\* the 300 ms fade up and the 300 ms timeout between the intro's end and playTrack
AFTER_VOICE_MS == 300 + 300

\* playVoiceAndMusic comes due: either the voice request fails and the first track starts
\* at once, or the intro audio plays and the first track is started after it ended
VoiceTimerFires ==
    /\ player.timer # Null
    /\ player.timer.kind = "voice"
    /\ now >= player.timer.fireAt
    /\ \/ player' = [player EXCEPT !.timer = Null,
                                   !.played = IF player.timer.uri = "" THEN @
                                              ELSE playTrack(player.timer.uri, 0, now)]
       \/ \E len \in IntroAudioSeconds :
            player' = [player EXCEPT !.timer =
                          IF player.timer.uri = "" THEN Null
                          ELSE [kind |-> "music",
                                fireAt |-> now + len * MS_PER_SECOND + AFTER_VOICE_MS,
                                uri |-> player.timer.uri, positionMs |-> 0]]
    /\ UNCHANGED <<now, storage, dash, ticks>>
    /\ DashFrame

\* ---- the wall clock
MaxTicks == 3

ClockAdvance(deltas) ==
    /\ ticks < MaxTicks
    /\ \E delta \in deltas : now' = now + delta
    /\ ticks' = ticks + 1
    /\ UNCHANGED <<storage, dash, player>>
    /\ DashFrame

\* the instants at which the first tab opens the dashboard
DashNows ==
    { 9 * MS_PER_HOUR + 7300,
      9 * MS_PER_HOUR + 29 * MS_PER_SECOND + 600,
      20 * MS_PER_HOUR + 59 * MS_PER_MINUTE + 58 * MS_PER_SECOND }

DashInit ==
    /\ now \in DashNows
    /\ storage = Null
    /\ \E library \in Libraries : dash = [c \in Tabs |-> DashInitial(library, <<>>)]
    /\ player = PlayerInitial
    /\ ticks = 0
    /\ SchedIdle
    /\ LocIdle
    /\ TlIdle
    /\ ReadIdle
    /\ GenIdle
    /\ PlayIdle

(***************************************************************************)
(* Two tabs starting up against one localStorage                           *)
(***************************************************************************)
StartupDeltas == {MS_PER_SECOND, SESSION_DURATION_HOURS * MS_PER_HOUR - MS_PER_SECOND}

StartupClock == ClockAdvance(StartupDeltas)

StartupNext ==
    \/ \E c \in Tabs : StartupCheck(c)
    \/ \E c \in Tabs : StartupCreate(c)
    \/ StartupClock

SpecStartup == DashInit /\ [][StartupNext]_vars

\* ---- the properties of the session store
BothReady == dash[1].pc = "ready" /\ dash[2].pc = "ready"

\* tab c is in generateBlocks and this step is one of its getOrCreateSession calls
CallsGetOrCreate(c) == dash[c].pc \in {"init", "building"} /\ dash'[c].pc # dash[c].pc

\* the blocks argument tab c passes in this step
BlocksArgument(c) == IF dash[c].pc = "init" THEN <<>> ELSE dash'[c].newBlocks

\* C8: when a session is stored and now < expiresAt, a getOrCreateSession call returns that
\* session with every field as stored, whatever blocks it is given (none, or 24 freshly built
\* ones), and leaves the storage as it was; so successive calls return the same id
C8_ValidSessionReturnedUnchanged ==
    [][ \A c \in Tabs :
          (CallsGetOrCreate(c) /\ storage # Null /\ now < storage.json.expiresAt)
              => /\ storage' = storage
                 /\ dash'[c].pc = "ready"
                 /\ dash'[c].session = storage.json
                 /\ dash'[c].session.id = storage.json.id ]_vars

\* a tab built 24 blocks of its own, passed them, and was handed the stored session of the
\* other tab instead
C8_Witness ==
    \E c \in Tabs :
        /\ dash[c].pc = "ready"
        /\ Len(dash[c].newBlocks) = DEMO_BLOCKS
        /\ dash[c].newBlocks # dash[c].session.blocks
        /\ storage = JSONstringify(dash[c].session)
        /\ now < dash[c].session.expiresAt

SameSession ==
    /\ dash[1].session.id = dash[2].session.id
    /\ dash[1].session.blocks = dash[2].session.blocks
    /\ storage # Null
    /\ storage.json.id = dash[1].session.id
    /\ storage.json.blocks = dash[1].session.blocks

\* C9 as stated: once both tabs finished start-up they use the same session id and blocks,
\* and that session is the stored one
C9_Original == BothReady => SameSession

\* C9: once both tabs finished start-up, and while the clock has not reached the expiresAt of
\* the session either of them uses, they use the same session id and blocks, and that session
\* is the stored one
C9_ConvergeUntilExpiry ==
    (BothReady /\ now < dash[1].session.expiresAt /\ now < dash[2].session.expiresAt)
        => SameSession

\* both tabs found no session, both built blocks (different ones, a block boundary apart),
\* and both ended on the session of the first writer
C9_Witness ==
    /\ BothReady
    /\ Len(dash[1].newBlocks) = DEMO_BLOCKS
    /\ Len(dash[2].newBlocks) = DEMO_BLOCKS
    /\ dash[1].newBlocks # dash[2].newBlocks
    /\ now < dash[1].session.expiresAt
    /\ now < dash[2].session.expiresAt
    /\ SameSession

(***************************************************************************)
(* One tab regenerating the broadcast                                      *)
(***************************************************************************)
RegenDeltas == {10 * MS_PER_SECOND, 31 * MS_PER_MINUTE}

RegenClock == ClockAdvance(RegenDeltas)

RegenNext ==
    \/ StartupCheck(1)
    \/ StartupCreate(1)
    \/ TuneInClick(1)
    \/ Refresh(1)
    \/ ToggleDemoMode(1)
    \/ RegenClock

SpecRegenerate == DashInit /\ [][RegenNext]_vars

\* the segments of one kind of a block, as positions in its list
SegmentsAt(block, kind) ==
    IF kind = "music" THEN block.musicContent ELSE block.voiceContent

\* the same segment: timing, duration and the voice text or the track
SameSegment(kind, a, b) ==
    /\ a.timing = b.timing
    /\ a.duration = b.duration
    /\ IF kind = "music" THEN a.spotifyUri = b.spotifyUri ELSE a.content = b.content

\* segment n of kind `kind` of old block i is found in the new session, in the block at the
\* same list position or in the block with the same start time
SegmentKept(old, new, i, kind, n) ==
    \E j \in 1..Len(new.blocks) :
        /\ j = i \/ new.blocks[j].startTime = old.blocks[i].startTime
        /\ \E m \in 1..Len(SegmentsAt(new.blocks[j], kind)) :
              SameSegment(kind, SegmentsAt(old.blocks[i], kind)[n],
                                SegmentsAt(new.blocks[j], kind)[m])

PastSegmentsKept(old, new, t) ==
    \A i \in 1..Len(old.blocks) : \A kind \in {"music", "voice"} :
        \A n \in 1..Len(SegmentsAt(old.blocks[i], kind)) :
            (old.blocks[i].startTime + SegmentsAt(old.blocks[i], kind)[n].timing * MS_PER_SECOND
                 < t)
                => SegmentKept(old, new, i, kind, n)

\* C10: when Refresh or the demo/live toggle replaces the stored session while a block of it is
\* live, every segment of the old session that started strictly before now is found
\* identical (timing, duration, text or track) in the new session at the same block position
C10_PastSegmentsPreserved ==
    [][ ( /\ dash[1].pc = "ready"
          /\ storage # Null
          /\ storage' # storage
          /\ getCurrentBlock(storage.json.blocks, now) # Null )
            => PastSegmentsKept(storage.json, storage'.json, now) ]_vars

(***************************************************************************)
(* One tab tuning in                                                       *)
(***************************************************************************)
TuneInDeltas == {MS_PER_SECOND, 3 * MS_PER_SECOND}

TuneInClock == ClockAdvance(TuneInDeltas)

TuneInNext ==
    \/ StartupCheck(1)
    \/ StartupCreate(1)
    \/ DeviceReady
    \/ TuneInClick(1)
    \/ MusicTimerFires
    \/ VoiceTimerFires
    \/ TuneInClock

SpecTuneIn == DashInit /\ [][TuneInNext]_vars

\* what the locator yields for the session's blocks at instant t
LiveAt(blocks, t) ==
    LET liveBlock == getCurrentBlock(blocks, t)
    IN  IF liveBlock = Null THEN NotLive(0) ELSE getCurrentPlaybackPosition(liveBlock, t)

\* C3: the play request the player sends after the user tuned in names the track of the
\* segment that is live at the instant of the request and seeks to the position in that
\* segment the locator yields for that instant
C3_PlaysLivePosition ==
    player.played # Null =>
        LET live == LiveAt(dash[1].blocks, player.played.at)
        IN  /\ live.segmentType = "music"
            /\ live.currentSegment.spotifyUri = player.played.uri
            /\ player.played.positionMs = live.positionInSegment * MS_PER_SECOND

(***************************************************************************)
(* Timeline engine: src/lib/types.ts (timelineEngine), the rows behind     *)
(* prisma.timeline and prisma.timelineItem                                 *)
(***************************************************************************)
\* today.setHours(0, 0, 0, 0)
Midnight(t) == t - (t % (24 * MS_PER_HOUR))

\* now.getTime() + 4 * 60 * 60 * 1000
FourHoursAhead(t) == t + 4 * 60 * 60 * 1000

\* currentTime.getTime() + 60 * 60 * 1000
HourEnd(t) == t + 60 * 60 * 1000

\* lockPastItems: updateMany where timestamp < now and locked = false, data locked = true
lockPastItems(items, t) ==
    {[it EXCEPT !.locked = TRUE] : it \in {i \in items : i.timestamp < t /\ ~i.locked}}
        \cup {i \in items : ~(i.timestamp < t /\ ~i.locked)}

\* a plausible slip: every unlocked item is deleted, started or not
DeleteUnlockedFuture_AnyTime(items, t) == {i \in items : i.locked}

\* regenerateFuture's deleteMany where timestamp >= now and locked = false: what remains
DeleteUnlockedFuture(items, t) == {i \in items : ~(i.timestamp >= t /\ ~i.locked)}

\* the track items of one hour: tracks laid end to end from the hour's start, none
\* starting at or after hourEnd
RECURSIVE HourTracks(_, _, _, _, _)
HourTracks(tracks, trackTime, hourEnd, style, created) ==
    IF tracks = <<>> \/ trackTime >= hourEnd THEN <<>>
    ELSE << [type |-> "track",
             timestamp |-> trackTime,
             duration |-> Head(tracks).duration_ms \div MS_PER_SECOND,
             locked |-> trackTime < created,
             spotifyUri |-> Head(tracks).uri,
             voiceContent |-> <<>>,
             mood |-> style] >>
         \o HourTracks(Tail(tracks), trackTime + Head(tracks).duration_ms, hourEnd,
                       style, created)

\* the voice items of one hour, up to the first one at or after hourEnd
RECURSIVE HourVoices(_, _, _, _, _)
HourVoices(voiceContent, currentTime, hourEnd, style, created) ==
    IF voiceContent = <<>> THEN <<>>
    ELSE LET voiceTime == currentTime + Head(voiceContent).timing * MS_PER_SECOND
         IN  IF voiceTime >= hourEnd THEN <<>>
             ELSE << [type |-> "voice",
                      timestamp |-> voiceTime,
                      duration |-> Head(voiceContent).duration,
                      locked |-> voiceTime < created,
                      spotifyUri |-> "",
                      voiceContent |-> Head(voiceContent).content,
                      mood |-> style] >>
                  \o HourVoices(Tail(voiceContent), currentTime, hourEnd, style, created)

\* tracks.slice(0, 10)
FirstTen(tracks) == SubSeq(tracks, 1, Min(Len(tracks), 10))

\* generateTimelineItems' while loop: the items array, hour by hour; feed is what
\* analyzeBlock and getPersonalizedRecommendations answer, created the clock while the
\* items are built
RECURSIVE TimelineItemsFrom(_, _, _, _)
TimelineItemsFrom(currentTime, endTime, feed, created) ==
    IF ~(currentTime < endTime) THEN <<>>
    ELSE HourTracks(FirstTen(feed.tracks), currentTime, HourEnd(currentTime),
                    feed.musicStyle, created)
         \o HourVoices(feed.voiceContent, currentTime, HourEnd(currentTime),
                       feed.musicStyle, created)
         \o TimelineItemsFrom(HourEnd(currentTime), endTime, feed, created)

\* prisma.timelineItem.createMany: each row gets a fresh id
createMany(items, data, nextId) ==
    items \cup {[id |-> nextId + k - 1,
                 type |-> data[k].type,
                 timestamp |-> data[k].timestamp,
                 duration |-> data[k].duration,
                 locked |-> data[k].locked,
                 spotifyUri |-> data[k].spotifyUri,
                 voiceContent |-> data[k].voiceContent,
                 mood |-> data[k].mood] : k \in 1..Len(data)}

\* getCurrentItem: findFirst where timestamp <= now, orderBy timestamp desc; the rows the
\* database may answer with (any of those sharing the latest timestamp), none when empty
getCurrentItem(items, t) ==
    {i \in items : i.timestamp <= t /\ \A j \in items : j.timestamp <= t => j.timestamp <= i.timestamp}

\* ---- what the collaborators answer during one generateTimelineItems run
Feeds ==
    { [ok |-> TRUE, musicStyle |-> "focus",
       tracks |-> << [uri |-> "spotify:track:a25", duration_ms |-> 25 * MS_PER_MINUTE],
                     [uri |-> "spotify:track:b40", duration_ms |-> 40 * MS_PER_MINUTE] >>,
       voiceContent |-> << [timing |-> 780, duration |-> 20, content |-> <<"News update">>] >>],
      [ok |-> TRUE, musicStyle |-> "calm",
       tracks |-> << >>,
       voiceContent |-> << [timing |-> 0, duration |-> 30, content |-> <<"Good morning">>] >>],
      [ok |-> FALSE] }

MaxRequests == 2

TlFrame == UNCHANGED <<now, locVars, schedVars, dashVars, readers, gen, play, voiceCache>>

\* getOrCreateTimeline up to its first await: prisma.timeline.findUnique for today, with
\* include: { items }: the call holds the row and the items as they were read
TlFind(c) ==
    /\ calls[c].pc \in {"idle", "threw"}
    /\ db.requests < MaxRequests
    /\ db' = [db EXCEPT !.requests = @ + 1]
    /\ calls' = [calls EXCEPT ![c] =
                    IF db.timeline # Null /\ db.timeline.date = Midnight(now)
                    THEN [pc |-> "lock", timeline |-> db.timeline, items |-> db.items]
                    ELSE [pc |-> "create"]]
    /\ TlFrame

\* createTimeline: prisma.timeline.create, which the unique (userId, date) key rejects when
\* another request created the row meanwhile
TlCreate(c) ==
    /\ calls[c].pc = "create"
    /\ IF db.timeline # Null
       THEN /\ calls' = [calls EXCEPT ![c] = [pc |-> "threw"]]
            /\ UNCHANGED db
       ELSE /\ db' = [db EXCEPT !.timeline = [date |-> Midnight(now),
                                              startTime |-> now,
                                              currentPosition |-> now,
                                              generatedUntil |-> FourHoursAhead(now)]]
            /\ calls' = [calls EXCEPT ![c] = [pc |-> "generate", regenerate |-> FALSE,
                                             startTime |-> now,
                                             endTime |-> FourHoursAhead(now),
                                             items |-> {}]]
    /\ TlFrame

\* lockPastItems, then the test on the generatedUntil that findUnique read; without a
\* regeneration `return timeline` hands back what findUnique read
TlLock(c) ==
    /\ calls[c].pc = "lock"
    /\ db' = [db EXCEPT !.items = lockPastItems(@, now)]
    /\ calls' = [calls EXCEPT ![c] =
                    IF calls[c].timeline.generatedUntil < FourHoursAhead(now)
                    THEN [pc |-> "delete", items |-> calls[c].items]
                    ELSE [pc |-> "returned", items |-> calls[c].items]]
    /\ TlFrame

\* regenerateFuture up to its deleteMany
TlDelete(c) ==
    /\ calls[c].pc = "delete"
    /\ db' = [db EXCEPT !.items = DeleteUnlockedFuture(@, now)]
    /\ calls' = [calls EXCEPT ![c] = [pc |-> "generate", regenerate |-> TRUE,
                                     startTime |-> now,
                                     endTime |-> FourHoursAhead(now),
                                     items |-> calls[c].items]]
    /\ TlFrame

\* generateTimelineItems: the awaited collaborators answer (or one of them rejects), the
\* items are built and written with createMany; createTimeline then returns what a new
\* findUnique with include: { items } reads
TlGenerate(c) ==
    /\ calls[c].pc = "generate"
    /\ \E feed \in Feeds :
        IF ~feed.ok
        THEN /\ calls' = [calls EXCEPT ![c] = [pc |-> "threw"]]
             /\ UNCHANGED db
        ELSE LET data == TimelineItemsFrom(calls[c].startTime, calls[c].endTime, feed, now)
             IN  /\ db' = [db EXCEPT !.items = createMany(@, data, db.nextId),
                                     !.nextId = @ + Len(data)]
                 /\ calls' = [calls EXCEPT ![c] =
                                 IF calls[c].regenerate
                                 THEN [pc |-> "update", generatedUntil |-> calls[c].endTime,
                                       items |-> calls[c].items]
                                 ELSE [pc |-> "returned", items |-> db'.items]]
    /\ TlFrame

\* regenerateFuture's prisma.timeline.update of generatedUntil, then `return timeline`:
\* the object findUnique answered with
TlUpdate(c) ==
    /\ calls[c].pc = "update"
    /\ db' = [db EXCEPT !.timeline.generatedUntil = calls[c].generatedUntil]
    /\ calls' = [calls EXCEPT ![c] = [pc |-> "returned", items |-> calls[c].items]]
    /\ TlFrame

\* GET /api/timeline/current after getOrCreateTimeline returned: getCurrentItem,
\* getUpcomingItems, and the response with allItems: timeline.items
TlRespond(c) ==
    /\ calls[c].pc = "returned"
    /\ calls' = [calls EXCEPT ![c] = [pc |-> "idle"]]
    /\ UNCHANGED db
    /\ TlFrame

TimelineDeltas == {10 * MS_PER_MINUTE, 30 * MS_PER_MINUTE}

\* the clock steps a timeline run is followed through
MaxTimelineTicks == 2

TimelineClock ==
    /\ ticks < MaxTimelineTicks
    /\ ClockAdvance(TimelineDeltas)

TimelineNows == {9 * MS_PER_HOUR + 7 * MS_PER_MINUTE + 13500}

TimelineInit ==
    /\ now \in TimelineNows
    /\ TlIdle
    /\ SchedIdle
    /\ LocIdle
    /\ DashIdle
    /\ ReadIdle
    /\ GenIdle
    /\ PlayIdle

TimelineNext ==
    \/ \E c \in Requests : TlFind(c)
    \/ \E c \in Requests : TlCreate(c)
    \/ \E c \in Requests : TlLock(c)
    \/ \E c \in Requests : TlDelete(c)
    \/ \E c \in Requests : TlGenerate(c)
    \/ \E c \in Requests : TlUpdate(c)
    \/ \E c \in Requests : TlRespond(c)
    \/ TimelineClock

SpecTimeline == TimelineInit /\ [][TimelineNext]_vars

\* item `after` is item `before` with nothing changed but locked going false -> true
KeptAs(before, after) ==
    /\ after.id = before.id
    /\ [after EXCEPT !.locked = before.locked] = before
    /\ before.locked => after.locked

\* C11: across every step of every getOrCreateTimeline call, an item that is locked or whose
\* timestamp is before the current time stays in the timeline with every field as it was,
\* except that locked may go from false to true; a locked item stays locked
C11_PastItemsKept ==
    [][ \A it \in db.items :
          (it.locked \/ it.timestamp < now)
              => \E kept \in db'.items : KeptAs(it, kept) ]_vars

\* a regeneration has deleted an unlocked future item while a started one, locked by
\* lockPastItems, and a started one that was not yet locked are both still there
C11_Witness ==
    /\ \E c \in Requests : calls[c].pc = "generate" /\ calls[c].regenerate
    /\ \E it \in db.items : it.locked /\ it.timestamp < now
    /\ \E it \in db.items : ~it.locked /\ it.timestamp < now
    /\ \E k \in 1..(db.nextId - 1) : \A it \in db.items : it.id # k

\* the item is playing at instant t
PlayingAt(it, t) == it.timestamp <= t /\ t < it.timestamp + it.duration * MS_PER_SECOND

\* C12: when regenerateFuture writes the new items while an item is playing, getCurrentItem
\* answers with that same item right after
C12_PlayingItemStays ==
    [][ \A c \in Requests :
          (calls[c].pc = "generate" /\ calls[c].regenerate /\ calls'[c].pc = "update")
              => \A p \in db.items :
                    PlayingAt(p, now) => \A q \in getCurrentItem(db'.items, now) : q.id = p.id ]_vars

(***************************************************************************)
(* Segment lists around a position: src/lib/radioStation.ts                *)
(***************************************************************************)
\* the allSegments entries getUpcomingSegments and getPastSegments push: music, then voice
SegmentEntries(block) ==
    [i \in 1..Len(block.musicContent) |->
        [type |-> "music", segment |-> block.musicContent[i],
         startTime |-> block.musicContent[i].timing]]
    \o [i \in 1..Len(block.voiceContent) |->
        [type |-> "voice", segment |-> block.voiceContent[i],
         startTime |-> block.voiceContent[i].timing]]

\* .filter((item) => item.startTime > currentElapsed)
RECURSIVE FilterUpcoming(_, _)
FilterUpcoming(items, currentElapsed) ==
    IF items = <<>> THEN <<>>
    ELSE IF Head(items).startTime > currentElapsed
         THEN <<Head(items)>> \o FilterUpcoming(Tail(items), currentElapsed)
         ELSE FilterUpcoming(Tail(items), currentElapsed)

\* a plausible slip: a segment counts as past as soon as it has started
RECURSIVE FilterPast_Started(_, _)
FilterPast_Started(items, currentElapsed) ==
    IF items = <<>> THEN <<>>
    ELSE IF Head(items).startTime <= currentElapsed
         THEN <<Head(items)>> \o FilterPast_Started(Tail(items), currentElapsed)
         ELSE FilterPast_Started(Tail(items), currentElapsed)

\* .filter((item) => item.startTime + (item.segment.duration || 0) <= currentElapsed)
RECURSIVE FilterPast(_, _)
FilterPast(items, currentElapsed) ==
    IF items = <<>> THEN <<>>
    ELSE IF Head(items).startTime + Head(items).segment.duration <= currentElapsed
         THEN <<Head(items)>> \o FilterPast(Tail(items), currentElapsed)
         ELSE FilterPast(Tail(items), currentElapsed)

getUpcomingSegments(block, currentElapsed) ==
    SortByStartTime(FilterUpcoming(SegmentEntries(block), currentElapsed))

getPastSegments(block, currentElapsed) ==
    SortByStartTime(FilterPast(SegmentEntries(block), currentElapsed))

\* a plausible slip: the block's own music list is sorted together with the voice segments
BlockAfterLocate_SortedInPlace(block) ==
    [block EXCEPT !.musicContent =
        [i \in 1..Len(SortByStartTime(AllSegments(block))) |->
            SortByStartTime(AllSegments(block))[i].segment]]

\* the block argument as getCurrentPlaybackPosition leaves it: the segments are pushed
\* into a new array and only that array is sorted
BlockAfterLocate(block) == block

(***************************************************************************)
(* The calendar comparison of hasCalendarChanged: src/lib/musicSelector.ts *)
(***************************************************************************)
\* the phrases of the voice texts in which toLowerCase().includes finds 'meeting', 'event'
\* or 'calendar'
CalendarPhrases ==
    { "Good morning! No meetings right now, so let's flow with",
      "on your calendar. Let's finish strong.",
      "Your meeting starts soon",
      "Calendar preview" }

MentionsCalendar(content) == \E k \in 1..Len(content) : content[k] \in CalendarPhrases

\* block.voiceContent.filter(...).length
RECURSIVE BlockMentions(_)
BlockMentions(voiceContent) ==
    IF voiceContent = <<>> THEN 0
    ELSE (IF MentionsCalendar(Head(voiceContent).content) THEN 1 ELSE 0)
         + BlockMentions(Tail(voiceContent))

\* blocks.reduce over the count of calendar mentions
RECURSIVE calendarMentions(_)
calendarMentions(blocks) ==
    IF blocks = <<>> THEN 0
    ELSE BlockMentions(Head(blocks).voiceContent) + calendarMentions(Tail(blocks))

(***************************************************************************)
(* Readers of one persisted session                                        *)
(***************************************************************************)
\* generateBlockSchedule run at time t with every await answering at once
ScheduleBlock(t, env, i) ==
    LET blockStart == BlockStartOf(t, i)
        blockEnd == BlockEndOf(blockStart)
        r == generateRadioBlock(blockStart, blockEnd, EnvFor(env, i), t)
    IN  IF r.threw THEN createFallbackBlock(blockStart, blockEnd, i, t) ELSE r.block

generateBlockSchedule(t, env) ==
    [k \in 1..BLOCKS_TO_GENERATE |-> ScheduleBlock(t, env, k - 1)]

\* the block lists a session is created from: the dashboard's demo and production
\* schedules and a scheduler run in which every kind of failure occurs
ReaderSchedules(t) ==
    { createAllDemoBlocks(SameInstant(t), TRUE, <<>>, <<>>),
      createAllDemoBlocks(SameInstant(t), FALSE,
                          << [uri |-> "spotify:track:lib1", artist |-> <<"Nils Frahm">>] >>, <<>>),
      generateBlockSchedule(t, [pattern |-> "rotate", kind |-> "calendar", idx |-> 0,
                                seed |-> 6, tickAt |-> -1]) }

\* the liveCalendarEventCount a caller may pass
EventCounts == {0, 2}

ReadFrame == UNCHANGED <<locVars, schedVars, tlVars, gen, play, voiceCache>>

\* one reader asks what plays now: the session is parsed from storage, getCurrentBlock and
\* getCurrentPlaybackPosition are evaluated, then the lists around the live position and
\* the regeneration test
ReaderEvaluates(r) ==
    /\ storage # Null
    /\ \E count \in EventCounts :
        LET session == JSONparse(storage)
            liveBlock == getCurrentBlock(session.blocks, now)
            position == IF liveBlock = Null THEN Null
                        ELSE getCurrentPlaybackPosition(liveBlock, now)
        IN  readers' = [readers EXCEPT ![r] =
                [at |-> now,
                 block |-> liveBlock,
                 blockAfter |-> IF liveBlock = Null THEN Null ELSE BlockAfterLocate(liveBlock),
                 position |-> position,
                 upcoming |-> IF liveBlock = Null THEN <<>>
                              ELSE getUpcomingSegments(liveBlock, position.totalElapsed),
                 past |-> IF liveBlock = Null THEN <<>>
                          ELSE getPastSegments(liveBlock, position.totalElapsed),
                 count |-> count,
                 regenerate |-> shouldRegenerateSession(session, count, now),
                 served |-> getOrCreateSession(storage, <<>>, now).session]]
    /\ UNCHANGED <<now, storage, dash, player, ticks>>
    /\ ReadFrame

ReaderDeltas ==
    {MS_PER_SECOND, 13 * MS_PER_MINUTE,
     SESSION_DURATION_HOURS * MS_PER_HOUR - MS_PER_SECOND}

ReaderClock ==
    /\ ClockAdvance(ReaderDeltas)
    /\ UNCHANGED readers

\* 09:00:07.300 (inside a block) and 09:29:59.000 (one second before a boundary)
ReaderNows == {9 * MS_PER_HOUR + 7300, 9 * MS_PER_HOUR + 29 * MS_PER_MINUTE + 59 * MS_PER_SECOND}

\* a session was created at this instant from one of the schedules
ReaderInit ==
    /\ now \in ReaderNows
    /\ \E blocks \in ReaderSchedules(now) :
          storage = getOrCreateSession(Null, blocks, now).storage
    /\ dash = [c \in Tabs |-> DashInitial(<<>>, <<>>)]
    /\ player = PlayerInitial
    /\ ticks = 0
    /\ ReadIdle
    /\ GenIdle
    /\ PlayIdle
    /\ SchedIdle
    /\ LocIdle
    /\ TlIdle

ReaderNext ==
    \/ \E r \in Readers : ReaderEvaluates(r)
    \/ ReaderClock

SpecReaders == ReaderInit /\ [][ReaderNext]_vars

\* the indices of the stored session's blocks that satisfy startTime <= t < endTime
LiveIndices(t) ==
    {i \in 1..Len(JSONparse(storage).blocks) :
        /\ JSONparse(storage).blocks[i].startTime <= t
        /\ t < JSONparse(storage).blocks[i].endTime}

\* C13: in the block list of a session created from a generated schedule at most one
\* block satisfies startTime <= now < endTime at any instant, and what a reader got from
\* getCurrentBlock at an instant is that block when it exists and null otherwise
C13_OneLiveBlock ==
    /\ Cardinality(LiveIndices(now)) <= 1
    /\ \A r \in Readers : readers[r] # Null =>
          /\ Cardinality(LiveIndices(readers[r].at)) <= 1
          /\ \A i \in LiveIndices(readers[r].at) :
                readers[r].block = JSONparse(storage).blocks[i]
          /\ LiveIndices(readers[r].at) = {} => readers[r].block = Null

\* one reader was given a block at the first instant of that block, which is the end
\* instant of the block before it, and the other reader, at or after the end of the last
\* block, was given null
C13_Witness ==
    /\ readers[1] # Null
    /\ readers[1].block # Null
    /\ readers[1].at = readers[1].block.startTime
    /\ \E i \in 1..Len(JSONparse(storage).blocks) :
          JSONparse(storage).blocks[i].endTime = readers[1].at
    /\ readers[2] # Null
    /\ readers[2].block = Null
    /\ readers[2].at >= JSONparse(storage).blocks[Len(JSONparse(storage).blocks)].endTime

\* what two evaluations have in common when they agree
SameAnswer(a, b) == a.block = b.block /\ a.position = b.position

EntriesWhere(block, Cond(_)) ==
    {i \in 1..Len(SegmentEntries(block)) : Cond(SegmentEntries(block)[i])}

\* a list holds exactly the selected segments, in ascending order of timing
ExactlySorted(list, block, Cond(_)) ==
    /\ Len(list) = Cardinality(EntriesWhere(block, Cond))
    /\ {list[k] : k \in 1..Len(list)} =
           {SegmentEntries(block)[i] : i \in EntriesWhere(block, Cond)}
    /\ \A k \in 1..(Len(list) - 1) : list[k].startTime <= list[k + 1].startTime

\* C15: getUpcomingSegments returns exactly the segments with timing > elapsed and
\* getPastSegments exactly those with timing + duration <= elapsed, each in ascending
\* order of timing; the two are disjoint, the segment reported live at that elapsed is in
\* neither, and every segment is past, upcoming or covers elapsed
C15_UpcomingAndPast ==
    \A r \in Readers : (readers[r] # Null /\ readers[r].block # Null) =>
        LET block == readers[r].block
            elapsed == readers[r].position.totalElapsed
            upcoming == readers[r].upcoming
            past == readers[r].past
            IsUpcoming(item) == item.startTime > elapsed
            IsPast(item) == item.startTime + item.segment.duration <= elapsed
            CoversElapsed(item) ==
                item.startTime <= elapsed /\ elapsed < item.startTime + item.segment.duration
        IN  /\ ExactlySorted(upcoming, block, IsUpcoming)
            /\ ExactlySorted(past, block, IsPast)
            /\ {upcoming[k] : k \in 1..Len(upcoming)} \cap {past[k] : k \in 1..Len(past)} = {}
            /\ readers[r].position.segmentType # "null" =>
                  /\ \A k \in 1..Len(upcoming) :
                        upcoming[k].segment # readers[r].position.currentSegment
                  /\ \A k \in 1..Len(past) :
                        past[k].segment # readers[r].position.currentSegment
            /\ \A i \in 1..Len(SegmentEntries(block)) :
                  \/ IsUpcoming(SegmentEntries(block)[i])
                  \/ IsPast(SegmentEntries(block)[i])
                  \/ CoversElapsed(SegmentEntries(block)[i])

\* a reader inside a live segment got a past list in which a voice segment precedes a
\* music segment, and a reader inside a live segment got past segments, one of them of
\* zero duration, and several upcoming ones
C15_Witness ==
    /\ \E r \in Readers :
          /\ readers[r] # Null
          /\ readers[r].block # Null
          /\ readers[r].position.segmentType # "null"
          /\ \E i, j \in 1..Len(readers[r].past) :
                /\ i < j
                /\ readers[r].past[i].type = "voice"
                /\ readers[r].past[j].type = "music"
    /\ \E r \in Readers :
          /\ readers[r] # Null
          /\ readers[r].block # Null
          /\ readers[r].position.segmentType # "null"
          /\ \E i \in 1..Len(readers[r].past) : readers[r].past[i].segment.duration = 0
          /\ Len(readers[r].upcoming) >= 2

\* C16: shouldRegenerateSession returns true whenever now >= session.expiresAt, the
\* instant now = expiresAt included, and, when the event count passed equals the
\* calendar mentions of the session's blocks, false whenever now < expiresAt
C16_RegenerateFromExpiry ==
    \A r \in Readers : readers[r] # Null =>
        /\ readers[r].at >= JSONparse(storage).expiresAt => readers[r].regenerate
        /\ (/\ readers[r].at < JSONparse(storage).expiresAt
            /\ readers[r].count = calendarMentions(JSONparse(storage).blocks))
              => ~readers[r].regenerate

\* one reader asked one second before expiry, with an event count equal to the calendar
\* mentions, and got false; the other asked at the expiry instant and got true
C16_Witness ==
    /\ readers[1] # Null
    /\ readers[2] # Null
    /\ readers[1].at = JSONparse(storage).expiresAt - MS_PER_SECOND
    /\ readers[1].count = calendarMentions(JSONparse(storage).blocks)
    /\ ~readers[1].regenerate
    /\ readers[2].at = JSONparse(storage).expiresAt
    /\ readers[2].regenerate

\* C17: before expiry shouldRegenerateSession returns true whenever the event count
\* passed differs from the number of voice segments of the session's blocks whose text
\* contains 'meeting', 'event' or 'calendar'
C17_RegenerateOnCalendarMismatch ==
    \A r \in Readers :
        (/\ readers[r] # Null
         /\ readers[r].at < JSONparse(storage).expiresAt
         /\ readers[r].count # calendarMentions(JSONparse(storage).blocks))
            => readers[r].regenerate

(***************************************************************************)
(* Forced regeneration: createNewSession with any blocks argument          *)
(***************************************************************************)
\* the blocks a caller may pass: none, or a schedule built at time t
ForceBlocks(t) == {<<>>} \cup ReaderSchedules(t)

\* const session = createNewSession(newBlocks), the caller keeping what was returned
ForceNewSession(c) ==
    /\ \E newBlocks \in ForceBlocks(now) :
        LET r == createNewSession(storage, newBlocks, now)
        IN  /\ storage' = r.storage
            /\ dash' = [dash EXCEPT ![c].newBlocks = newBlocks, ![c].session = r.session]
    /\ UNCHANGED <<now, player, ticks>>
    /\ DashFrame

ForceDeltas == {15 * MS_PER_SECOND, SESSION_DURATION_HOURS * MS_PER_HOUR}

ForceClock == ClockAdvance(ForceDeltas)

ForceNext ==
    \/ ForceNewSession(1)
    \/ ForceClock

\* a session is stored when the first call is made
SpecForce == ReaderInit /\ [][ForceNext]_vars

\* C18: createNewSession(blocks), for any blocks argument, leaves in storage a valid
\* session, which it returns, whose blocks are the given blocks, whose startTime is
\* blocks[0].startTime, whose voiceFiles map is empty and whose expiresAt is createdAt
\* + 12 hours
C18_NewSessionStored ==
    [][(storage' # storage \/ dash' # dash) =>
        /\ storage' # Null
        /\ dash'[1].session # Null
        /\ JSONparse(storage') = dash'[1].session
        /\ SessionValid(dash'[1].session, now)
        /\ dash'[1].session.blocks = dash'[1].newBlocks
        /\ dash'[1].session.startTime = dash'[1].newBlocks[1].startTime
        /\ dash'[1].session.voiceFiles = <<>>
        /\ dash'[1].session.expiresAt
              = dash'[1].session.createdAt + SESSION_DURATION_HOURS * MS_PER_HOUR]_vars

(***************************************************************************)
(* The Shuffle button: handleShuffleNextTrack                              *)
(***************************************************************************)
\* currentBlock with the spotifyUri of the music segment at idx === 1 replaced
ShuffledBlock(currentBlock, randomTrack) ==
    [currentBlock EXCEPT !.musicContent =
        [k \in 1..Len(currentBlock.musicContent) |->
            IF k - 1 = 1
            THEN [currentBlock.musicContent[k] EXCEPT !.spotifyUri = randomTrack.uri]
            ELSE currentBlock.musicContent[k]]]

\* the button is rendered once the user has tuned in; Math.random picks any library track;
\* setBlocks and setCurrentBlock, nothing is written to storage
ShuffleNextTrack(c) ==
    /\ dash[c].pc = "ready"
    /\ dash[c].hasInteracted
    /\ dash[c].currentBlock # Null
    /\ Len(dash[c].userLibrary) # 0
    /\ \E n \in 1..Len(dash[c].userLibrary) :
        LET randomTrack == dash[c].userLibrary[n]
            updatedBlock == ShuffledBlock(dash[c].currentBlock, randomTrack)
            updatedBlocks == [i \in 1..Len(dash[c].blocks) |->
                                 IF dash[c].blocks[i].id = dash[c].currentBlock.id
                                 THEN updatedBlock ELSE dash[c].blocks[i]]
        IN  Render(c, [dash[c] EXCEPT !.blocks = updatedBlocks,
                                      !.currentBlock = updatedBlock], now)
    /\ UNCHANGED <<now, storage, ticks>>
    /\ DashFrame

ShuffleDeltas == {5 * MS_PER_SECOND, 10 * MS_PER_SECOND}

ShuffleClock == ClockAdvance(ShuffleDeltas)

ShuffleNext ==
    \/ StartupCheck(1)
    \/ StartupCreate(1)
    \/ TuneInClick(1)
    \/ ShuffleNextTrack(1)
    \/ ShuffleClock

SpecShuffle == DashInit /\ [][ShuffleNext]_vars

\* C19: the shuffle changes only the track of a music segment that has not yet started
\* (block startTime + timing > now), and changes no timing or duration
C19_ShuffleOnlyFuture ==
    [][(dash[1].hasInteracted /\ dash'[1].blocks # dash[1].blocks) =>
        \A i \in 1..Len(dash[1].blocks) :
            \A k \in 1..Len(dash[1].blocks[i].musicContent) :
                LET before == dash[1].blocks[i].musicContent[k]
                    after == dash'[1].blocks[i].musicContent[k]
                IN  after # before =>
                        /\ dash[1].blocks[i].startTime + before.timing * MS_PER_SECOND > now
                        /\ after.timing = before.timing
                        /\ after.duration = before.duration]_vars

\* C20: in every block built by createSingleDemoBlock, in demo mode and in production
\* mode, no two segments of the merged voice and music sequence have intersecting
\* [timing, timing + duration) ranges and every segment ends at or before the block
\* duration
C20_DemoBlocksWellFormed ==
    \A i \in 1..Len(dash[1].newBlocks) :
        NoOverlap(dash[1].newBlocks[i]) /\ Contained(dash[1].newBlocks[i])

(***************************************************************************)
(* generateAudioBlock: src/lib/types.ts (the block engine), with           *)
(* analyzeBlock of src/unnamed/part_004 and POST /api/blocks/generate      *)
(***************************************************************************)
\* what openai.chat.completions.create can do: reject, answer with text that is not JSON,
\* or answer with JSON that has or lacks the fields analyzeBlock reads
AiReplies ==
    {[kind |-> "rejects"], [kind |-> "unparsable"]}
    \cup {[kind |-> "json", body |-> AiResponses[k]] : k \in 1..Len(AiResponses)}
    \cup {[kind |-> "json", body |-> [strategy |-> AiResponses[1].strategy]],
          [kind |-> "json", body |-> [voiceContent |-> AiResponses[2].voiceContent]]}

\* one analyzeBlock call whose completion arrives at time t: what it returns, or that it
\* rejects (the create call rejects, JSON.parse throws, or result.voiceContent.map throws
\* on undefined); there is no try/catch in the function
analyzeBlockCall(reply, t) ==
    IF reply.kind = "rejects" THEN [threw |-> TRUE]
    ELSE IF reply.kind = "unparsable" THEN [threw |-> TRUE]
    ELSE IF "voiceContent" \notin DOMAIN reply.body THEN [threw |-> TRUE]
    ELSE [threw |-> FALSE, value |-> analyzeBlock(reply.body, t)]

\* createMusicSegments' loop from currentTime on
RECURSIVE PlaceTracks(_, _, _, _)
PlaceTracks(tracks, strategy, durationSeconds, currentTime) ==
    IF tracks = <<>> \/ currentTime >= durationSeconds THEN <<>>
    ELSE LET trackDuration == Head(tracks).duration_ms \div MS_PER_SECOND
         IN  << [timing |-> currentTime,
                 duration |-> trackDuration,
                 spotifyUri |-> Head(tracks).uri,
                 volume |-> strategy.musicVolume,
                 fadeIn |-> IF currentTime = 0 THEN "2" ELSE "0",
                 fadeOut |-> "2"] >>
             \o PlaceTracks(Tail(tracks), strategy, durationSeconds,
                            currentTime + trackDuration)

createMusicSegments(tracks, strategy, durationSeconds) ==
    PlaceTracks(tracks, strategy, durationSeconds, 0)

\* generatePersonalizedMusicSegments with the answers of getPersonalizedRecommendations
\* (tracks) and of getTracksForMood (fallbackTracks)
generatePersonalizedMusicSegments(strategy, tracks, fallbackTracks, durationSeconds) ==
    IF strategy.musicStyle = "silent" THEN <<>>
    ELSE IF Len(tracks) = 0 THEN createMusicSegments(fallbackTracks, strategy, durationSeconds)
    ELSE createMusicSegments(tracks, strategy, durationSeconds)

\* getBlockTimeRange(blockIndex) at time t
getBlockTimeRange(blockIndex, t) ==
    [start |-> Midnight(t) + blockIndex * MS_PER_HOUR,
     end |-> Midnight(t) + (blockIndex + 1) * MS_PER_HOUR]

\* the track lists the recommendation endpoints answer with
GenTrackLists == {<<>>, TrackList(0, 2), TrackList(0, MaxTracks), TrackList(2, 3)}

GenFrame == UNCHANGED <<locVars, schedVars, dashVars, tlVars, readers, play, voiceCache>>

\* POST /api/blocks/generate without blockIndex: the range of the current hour
GenStart ==
    /\ gen.pc = "idle"
    /\ gen' = [pc |-> "analyze",
               range |-> getBlockTimeRange(getHours(now), now),
               analysis |-> NoResult, voice |-> <<>>, fails |-> {}, block |-> Null,
               ticks |-> 0]
    /\ UNCHANGED now
    /\ GenFrame

\* steps 1 to 4: buildMusicProfile, getUpcomingEvents, getTopHeadlines, analyzeBlock; a
\* rejection leaves generateAudioBlock rejected (the route answers 500)
GenAnalyze ==
    /\ gen.pc = "analyze"
    /\ \E reply \in AiReplies :
        LET analysis == analyzeBlockCall(reply, now)
        IN  gen' = [gen EXCEPT !.analysis = analysis,
                               !.pc = IF analysis.threw THEN "rejected" ELSE "speech"]
    /\ UNCHANGED now
    /\ GenFrame

\* step 5: generateMultipleSpeechSegments, any of the syntheses failing
GenSpeech ==
    /\ gen.pc = "speech"
    /\ \E ttsFails \in SUBSET (1..Len(gen.analysis.value.voiceContent)) :
        gen' = [gen EXCEPT !.voice = generateMultipleSpeechSegments(
                                         gen.analysis.value.voiceContent, ttsFails),
                           !.fails = ttsFails,
                           !.pc = "music"]
    /\ UNCHANGED now
    /\ GenFrame

\* step 6 and the assembly; strategy.musicStyle of an undefined strategy throws
GenMusic ==
    /\ gen.pc = "music"
    /\ IF gen.analysis.value.strategy = Null
       THEN gen' = [gen EXCEPT !.pc = "rejected"]
       ELSE \E tracks \in GenTrackLists, fallbackTracks \in GenTrackLists :
            gen' = [gen EXCEPT
                       !.pc = "done",
                       !.block = [id |-> <<"block", gen.range.start>>,
                                  startTime |-> gen.range.start,
                                  endTime |-> gen.range.end,
                                  strategy |-> gen.analysis.value.strategy,
                                  voiceContent |-> gen.voice,
                                  musicContent |-> generatePersonalizedMusicSegments(
                                      gen.analysis.value.strategy, tracks, fallbackTracks, 3600),
                                  generatedAt |-> now]]
    /\ UNCHANGED now
    /\ GenFrame

\* time passes while a call is awaited
GenClock ==
    /\ gen.pc \in {"analyze", "speech", "music"}
    /\ gen.ticks < MaxTicks
    /\ \E delta \in {1, 2 * MS_PER_SECOND} : now' = now + delta
    /\ gen' = [gen EXCEPT !.ticks = gen.ticks + 1]
    /\ GenFrame

\* 09:07:13.500 and 23:59:59.999
GenNows == {9 * MS_PER_HOUR + 7 * MS_PER_MINUTE + 13500, 24 * MS_PER_HOUR - 1}

GenInit ==
    /\ now \in GenNows
    /\ GenIdle
    /\ PlayIdle
    /\ DashIdle
    /\ ReadIdle
    /\ SchedIdle
    /\ LocIdle
    /\ TlIdle

GenNext == GenStart \/ GenAnalyze \/ GenSpeech \/ GenMusic \/ GenClock

SpecGenerate == GenInit /\ [][GenNext]_vars

\* a segment lies within [0, durationSeconds) of its block
WithinBlock(segment, durationSeconds) ==
    segment.timing >= 0 /\ segment.timing + segment.duration <= durationSeconds

\* C21: every block returned by generateAudioBlock for a one-hour range keeps each voice
\* and each music segment within [0, 3600) s, no voice segment's range intersects a
\* music segment's range, and the last music segment ends at or before 3600 s
C21_AudioBlockWellFormed ==
    gen.pc = "done" =>
        /\ \A k \in 1..Len(gen.block.voiceContent) :
              WithinBlock(gen.block.voiceContent[k], 3600)
        /\ \A k \in 1..Len(gen.block.musicContent) :
              WithinBlock(gen.block.musicContent[k], 3600)
        /\ \A v \in 1..Len(gen.block.voiceContent), m \in 1..Len(gen.block.musicContent) :
              ~RangesIntersect(VoiceItem(gen.block.voiceContent[v]),
                               MusicItem(gen.block.musicContent[m]))

\* the music segments that start inside the window [start, start + duration)
InWindow(music, start, duration) ==
    {k \in 1..Len(music) : music[k].timing >= start /\ music[k].timing < start + duration}

\* the window is filled without gaps: a segment starts at its start, and every segment
\* is followed at its end by another one or ends at the window's end
WindowFilled(music, start, duration) ==
    /\ \E k \in InWindow(music, start, duration) : music[k].timing = start
    /\ \A k \in InWindow(music, start, duration) :
          \/ music[k].timing + music[k].duration = start + duration
          \/ \E j \in InWindow(music, start, duration) :
                music[j].timing = music[k].timing + music[k].duration

VoiceOccupies(voice, timing, duration) ==
    \E k \in 1..Len(voice) : voice[k].timing = timing /\ voice[k].duration = duration

\* C22: in every block built by generateRadioBlock the music segments fill the windows
\* [0, 780) and [840, 1740) without gaps, whatever track list the catalog returned, and
\* voice segments occupy [780, 840) and [1740, 1800)
C22_SegmentsCoverBlock ==
    \A i \in 1..Len(sBlocks) :
        sBlocks[i].id[1] = "block" =>
            /\ WindowFilled(sBlocks[i].musicContent, 0, 780)
            /\ WindowFilled(sBlocks[i].musicContent, 840, 900)
            /\ VoiceOccupies(sBlocks[i].voiceContent, 780, 60)
            /\ VoiceOccupies(sBlocks[i].voiceContent, 1740, 60)

\* the number of voice breaks a voiceFrequency stands for: at least 3 for active
VoiceCountFits(voiceFrequency, count) ==
    CASE voiceFrequency = "none" -> count = 0
      [] voiceFrequency = "minimal" -> count = 1
      [] voiceFrequency = "moderate" -> count = 2
      [] voiceFrequency = "active" -> count >= 3

\* C23: the number of voice segments of a block assembled by the scheduler is the one
\* its strategy.voiceFrequency stands for: none 0, minimal 1, moderate 2, active 3 or more
C23_VoiceCountByFrequency ==
    \A i \in 1..Len(sBlocks) :
        VoiceCountFits(sBlocks[i].strategy.voiceFrequency, Len(sBlocks[i].voiceContent))

\* C24: every generated block whose strategy.musicStyle is 'silent' has an empty
\* musicContent, from generateRadioBlock and from generateAudioBlock
C24_SilentHasNoMusic ==
    /\ \A i \in 1..Len(sBlocks) :
          sBlocks[i].strategy.musicStyle = "silent" => sBlocks[i].musicContent = <<>>
    /\ (gen.pc = "done" /\ gen.block.strategy.musicStyle = "silent")
          => gen.block.musicContent = <<>>

\* C25: analyzeBlock always returns a strategy and a voice-segment list: when the
\* content-generation call rejects or answers with malformed data it returns a fallback
\* strategy instead of rejecting
C25_AnalyzeAlwaysReturns ==
    (gen.pc # "idle" /\ gen.analysis # NoResult) =>
        /\ ~gen.analysis.threw
        /\ gen.analysis.value.strategy # Null

(***************************************************************************)
(* generateBlockSchedule with a collaborator call that never settles       *)
(***************************************************************************)
\* the runs of SchedEnvs without failures or with rotating ones, and the iteration whose
\* awaited call (calendar, news, content generation, speech synthesis or catalog) never
\* settles; -1 when every call settles
HangEnvs ==
    [pattern : {"none", "rotate"}, kind : {"calendar"}, idx : 0..(Len(RotatingKinds) - 1),
     seed : 0..MaxSeed, tickAt : {-1}, hangAt : {-1, 0, 7, BLOCKS_TO_GENERATE - 1}]

\* the promise generateRadioBlock returns for iteration sI settles: no await in it is
\* raced against a timer, so it settles only if every collaborator call does
CallSettles == sI # sEnv.hangAt

AwaitedBlockOk == CallSettles /\ GenerateBlockOk

AwaitedBlockFailed == CallSettles /\ GenerateBlockFailed

HangInit ==
    /\ now \in SchedNows
    /\ sNow = now
    /\ sI = 0
    /\ sBlocks = <<>>
    /\ sPc = "loop"
    /\ sEnv \in HangEnvs
    /\ LocIdle
    /\ DashIdle
    /\ TlIdle
    /\ ReadIdle
    /\ GenIdle
    /\ PlayIdle

HangNext == AwaitedBlockOk \/ AwaitedBlockFailed \/ ReturnSchedule

\* the event loop runs a continuation once the promise it awaits has settled
SpecScheduleLive ==
    /\ HangInit
    /\ [][HangNext]_vars
    /\ WF_vars(AwaitedBlockOk)
    /\ WF_vars(AwaitedBlockFailed)
    /\ WF_vars(ReturnSchedule)

\* C26: generateBlockSchedule eventually returns even if a collaborator call never
\* completes
C26_ScheduleReturns == <>(sPc = "done")

\* C27: generateMultipleSpeechSegments returns, for any subset of failing syntheses, a
\* list of the same length and order in which every segment keeps its id, timing,
\* content, duration and priority, with audioUrl exactly on the segments whose synthesis
\* succeeded
C27_SpeechSegmentsKept ==
    gen.pc \in {"music", "done"} =>
        LET segments == gen.analysis.value.voiceContent
        IN  /\ Len(gen.voice) = Len(segments)
            /\ \A k \in 1..Len(gen.voice) :
                  /\ gen.voice[k].id = segments[k].id
                  /\ gen.voice[k].timing = segments[k].timing
                  /\ gen.voice[k].content = segments[k].content
                  /\ gen.voice[k].duration = segments[k].duration
                  /\ gen.voice[k].priority = segments[k].priority
                  /\ ("audioUrl" \in DOMAIN gen.voice[k]) <=> (k \notin gen.fails)

\* three segments were handed over and the synthesis of the second one alone failed
C27_Witness ==
    /\ gen.pc \in {"music", "done"}
    /\ Len(gen.analysis.value.voiceContent) = 3
    /\ gen.fails = {2}
    /\ Len(gen.voice) = 3

\* the ids of the voice segments of a list of blocks
VoiceIds(blocks) ==
    UNION {{blocks[i].voiceContent[k].id : k \in 1..Len(blocks[i].voiceContent)} :
              i \in 1..Len(blocks)}

\* the number of voice segments of a list of blocks
RECURSIVE VoiceCount(_)
VoiceCount(blocks) ==
    IF blocks = <<>> THEN 0 ELSE Len(Head(blocks).voiceContent) + VoiceCount(Tail(blocks))

\* C28: the voice segments of one session have pairwise distinct ids, and the voice
\* segments of a regenerated session reuse no id of the session they replace
C28_VoiceIdsFresh ==
    /\ [](storage # Null =>
            Cardinality(VoiceIds(JSONparse(storage).blocks))
                = VoiceCount(JSONparse(storage).blocks))
    /\ [][(storage # Null /\ storage' # Null /\ storage' # storage) =>
            VoiceIds(JSONparse(storage').blocks) \cap VoiceIds(JSONparse(storage).blocks)
                = {}]_vars

(***************************************************************************)
(* storeVoiceFile, getVoiceFile, clearSession: src/lib/broadcastSession.ts *)
(***************************************************************************)
\* voiceFiles is an object keyed by voice id: a list of entries in insertion order
VoiceKeys(voiceFiles) == DOMAIN voiceFiles

\* session.voiceFiles[voiceId] = audioDataUrl
SetVoiceFile(voiceFiles, voiceId, audioDataUrl) ==
    IF \E i \in VoiceKeys(voiceFiles) : voiceFiles[i].id = voiceId
    THEN [i \in VoiceKeys(voiceFiles) |->
            IF voiceFiles[i].id = voiceId
            THEN [voiceFiles[i] EXCEPT !.url = audioDataUrl] ELSE voiceFiles[i]]
    ELSE Append(voiceFiles, [id |-> voiceId, url |-> audioDataUrl])

\* storeVoiceFile(voiceId, audioDataUrl) against the stored item: what the storage holds
\* afterwards; a setItem that throws (quota) is caught and leaves the item as it was
storeVoiceFile(stored, voiceId, audioDataUrl, setItemThrows) ==
    IF stored = Null THEN stored
    ELSE LET session == JSONparse(stored)
             updated == [session EXCEPT
                            !.voiceFiles = SetVoiceFile(session.voiceFiles, voiceId, audioDataUrl)]
         IN  IF setItemThrows THEN stored ELSE JSONstringify(updated)

\* getVoiceFile(voiceId): session.voiceFiles[voiceId] || null; a string result is [url |-> s]
getVoiceFile(stored, voiceId) ==
    IF stored = Null THEN Null
    ELSE LET voiceFiles == JSONparse(stored).voiceFiles
             found == {i \in VoiceKeys(voiceFiles) : voiceFiles[i].id = voiceId}
         IN  IF found = {} THEN Null
             ELSE LET value == voiceFiles[CHOOSE i \in found : TRUE].url
                  IN  IF value = <<>> THEN Null ELSE [url |-> value]

\* clearSession(): localStorage.removeItem(SESSION_KEY)
clearSession(stored) == Null

\* the voice ids and the audio data URLs callers pass
VoiceIdPool == {<<"voice-intro", 0>>, <<"voice-transition", 0>>}
AudioDataUrls == {<<>>, <<"data:audio/mpeg;base64,SUQz">>, <<"data:audio/mpeg;base64,//uQ">>}

\* storeVoiceFile(id, a) followed by getVoiceFile(id)
VoiceStore(r) ==
    /\ \E voiceId \in VoiceIdPool, a \in AudioDataUrls, setItemThrows \in BOOLEAN :
        /\ storage' = storeVoiceFile(storage, voiceId, a, setItemThrows)
        /\ readers' = [readers EXCEPT ![r] =
                          [op |-> "store", id |-> voiceId, url |-> a,
                           got |-> getVoiceFile(storage', voiceId)]]
    /\ UNCHANGED <<now, dash, player, ticks>>
    /\ ReadFrame

\* getVoiceFile(id)
VoiceGet(r) ==
    /\ \E voiceId \in VoiceIdPool :
        readers' = [readers EXCEPT ![r] =
                       [op |-> "get", id |-> voiceId, url |-> <<>>,
                        got |-> getVoiceFile(storage, voiceId)]]
    /\ UNCHANGED <<now, storage, dash, player, ticks>>
    /\ ReadFrame

\* clearSession()
VoiceClear ==
    /\ storage # Null
    /\ storage' = clearSession(storage)
    /\ UNCHANGED <<now, dash, player, ticks, readers>>
    /\ ReadFrame

\* a session is created again after a clear
VoiceCreate ==
    /\ storage = Null
    /\ \E blocks \in ReaderSchedules(now) :
          storage' = getOrCreateSession(storage, blocks, now).storage
    /\ UNCHANGED <<now, dash, player, ticks, readers>>
    /\ ReadFrame

VoiceNext ==
    \/ VoiceStore(1)
    \/ VoiceGet(1)
    \/ VoiceClear
    \/ VoiceCreate

SpecVoiceFiles == ReaderInit /\ [][VoiceNext]_vars

\* the stored session without its voiceFiles
SessionBesidesVoiceFiles(stored) == [JSONparse(stored) EXCEPT !.voiceFiles = <<>>]

\* C29: while a session is stored, storeVoiceFile(id, a) followed by getVoiceFile(id)
\* returns a and changes nothing of the stored session but voiceFiles[id]; with no
\* stored session storeVoiceFile writes nothing and getVoiceFile returns null, also
\* after clearSession
C29_VoiceFileRoundTrip ==
    [][\A r \in Readers : (readers'[r] # readers[r]) =>
        LET o == readers'[r]
        IN  /\ (o.op = "store" /\ storage # Null) =>
                /\ o.got = [url |-> o.url]
                /\ storage' # Null
                /\ SessionBesidesVoiceFiles(storage') = SessionBesidesVoiceFiles(storage)
                /\ \A other \in VoiceIdPool \ {o.id} :
                      getVoiceFile(storage', other) = getVoiceFile(storage, other)
            /\ (o.op = "store" /\ storage = Null) => (storage' = Null /\ o.got = Null)
            /\ (o.op = "get" /\ storage = Null) => o.got = Null]_vars

\* C30: every not-live result of getCurrentPlaybackPosition, also one for a time before
\* the block's start, reports totalElapsed = floor((now - block.startTime) / 1 s)
C30_NotLiveReportsElapsed ==
    (lResult # NoResult /\ IsNotLiveResult(lResult)) =>
        lResult.totalElapsed = WholeSecondsSince(lBlock.startTime, now)

(***************************************************************************)
(* getCurrentPlaybackPosition handed a block that does not end after its   *)
(* start                                                                   *)
(***************************************************************************)
\* the scenario block with its end at its start, and with its end 30 minutes before
InvalidBlocks ==
    << [ScenarioBlock EXCEPT !.endTime = ScenarioBlock.startTime],
       [ScenarioBlock EXCEPT !.endTime = ScenarioBlock.startTime - 30 * MS_PER_MINUTE] >>

InvalidInit ==
    /\ \E b \in 1..Len(InvalidBlocks) :
          /\ lBlock = InvalidBlocks[b]
          /\ now \in {lBlock.startTime + e * MS_PER_SECOND + f :
                        e \in LocateElapsed(lBlock) \cup LocateElapsed(ScenarioBlock),
                        f \in SubSecond}
    /\ lResult = NoResult
    /\ SchedIdle
    /\ DashIdle
    /\ TlIdle
    /\ ReadIdle
    /\ GenIdle
    /\ PlayIdle

SpecLocateInvalid == InvalidInit /\ [][LocNext]_vars

\* C31: for a block whose endTime <= startTime getCurrentPlaybackPosition answers, at
\* every current time, with something the caller can tell from the not-live result
C31_InvalidBlockSignaled ==
    (lBlock # Null /\ lResult # NoResult /\ lBlock.endTime <= lBlock.startTime) =>
        ~IsNotLiveResult(lResult)

\* two items that one generation would not both write: the same type at the same instant
SameSlot(a, b) == a.id # b.id /\ a.type = b.type /\ a.timestamp = b.timestamp

\* C32: after any interleaving of concurrent getOrCreateTimeline calls of one user on one
\* day one timeline exists, its items were generated once, and no call ends in an error
C32_OneTimelineGeneratedOnce ==
    /\ [](\A a \in db.items : \A b \in db.items : ~SameSlot(a, b))
    /\ [][\A c \in Requests :
            (calls[c].pc = "create" /\ calls'[c].pc # "create")
                => calls'[c].pc = "generate"]_vars

(***************************************************************************)
(* playTrack: src/components/SpotifyPlayer.tsx                             *)
(***************************************************************************)
\* the play requests one user-level call may send before the model stops following it
MaxPlayRequests == 4

\* setTimeout(() => playTrack(uri, retryCount + 1), 500)
RETRY_DELAY_MS == 500

PlayFrame == UNCHANGED <<locVars, schedVars, storage, dash, player, tlVars, readers, gen,
                         voiceCache>>

\* what a caller passes: the track and where to start in it
PlayUris == {"spotify:track:t2000", "spotify:track:t2001"}
PlayPositions == {0, 73000}

\* playTrack(uri, positionMs = 0, retryCount = 0) up to its first await; without a
\* device it returns at once
PlayEnter(uri, positionMs, retryCount, hasDevice, orig, requests, refreshes) ==
    [pc |-> IF hasDevice THEN "token" ELSE "returned",
     uri |-> uri, positionMs |-> positionMs, retryCount |-> retryCount,
     orig |-> orig, requests |-> requests, refreshes |-> refreshes, fireAt |-> 0]

\* a caller (the playback effect, queueNextTrack) calls playTrack(uri, positionMs)
PlayCall ==
    /\ play.pc \in {"idle", "returned"}
    /\ \E uri \in PlayUris, positionMs \in PlayPositions, hasDevice \in BOOLEAN :
          play' = PlayEnter(uri, positionMs, 0, hasDevice,
                            [uri |-> uri, positionMs |-> positionMs], <<>>, 0)
    /\ UNCHANGED <<now, ticks>>
    /\ PlayFrame

\* getSpotifyAccessToken settles: without a token the call returns, with one the PUT
\* /v1/me/player/play request is sent with uris: [uri], position_ms: positionMs
PlayToken ==
    /\ play.pc = "token"
    /\ Len(play.requests) < MaxPlayRequests
    /\ \E hasToken \in BOOLEAN :
          play' = IF hasToken
                  THEN [play EXCEPT !.pc = "sent",
                                    !.requests = Append(@, [uri |-> play.uri,
                                                            positionMs |-> play.positionMs])]
                  ELSE [play EXCEPT !.pc = "returned"]
    /\ UNCHANGED <<now, ticks>>
    /\ PlayFrame

\* the play request settles: ok, a 403, another status, or the fetch rejects (caught)
PlayResponse ==
    /\ play.pc = "sent"
    /\ \E status \in {204, 403, 502, 0} :
          play' = IF status = 403 /\ play.retryCount = 0
                  THEN [play EXCEPT !.pc = "refresh", !.refreshes = @ + 1]
                  ELSE [play EXCEPT !.pc = "returned"]
    /\ UNCHANGED <<now, ticks>>
    /\ PlayFrame

\* POST /api/spotify/refresh settles: ok arms the retry timer, anything else is logged
PlayRefreshed ==
    /\ play.pc = "refresh"
    /\ \E ok \in BOOLEAN :
          play' = IF ok
                  THEN [play EXCEPT !.pc = "timer", !.fireAt = now + RETRY_DELAY_MS]
                  ELSE [play EXCEPT !.pc = "returned"]
    /\ UNCHANGED <<now, ticks>>
    /\ PlayFrame

\* the retry timer comes due: playTrack(uri, retryCount + 1), the second argument being
\* positionMs and retryCount taking its default
PlayRetry ==
    /\ play.pc = "timer"
    /\ now >= play.fireAt
    /\ play' = PlayEnter(play.uri, play.retryCount + 1, 0, TRUE,
                         play.orig, play.requests, play.refreshes)
    /\ UNCHANGED <<now, ticks>>
    /\ PlayFrame

PlayDeltas == {RETRY_DELAY_MS, 2 * MS_PER_SECOND}

PlayClock ==
    /\ ticks < MaxTicks
    /\ \E delta \in PlayDeltas : now' = now + delta
    /\ ticks' = ticks + 1
    /\ UNCHANGED play
    /\ PlayFrame

PlayInit ==
    /\ now = 9 * MS_PER_HOUR + 7300
    /\ PlayIdle
    /\ GenIdle
    /\ DashIdle
    /\ ReadIdle
    /\ SchedIdle
    /\ LocIdle
    /\ TlIdle

PlayNext ==
    \/ PlayCall
    \/ PlayToken
    \/ PlayResponse
    \/ PlayRefreshed
    \/ PlayRetry
    \/ PlayClock

SpecPlayTrack == PlayInit /\ [][PlayNext]_vars

\* C33: one user-level call to playTrack sends at most two play requests and refreshes
\* the token at most once, and every request of it asks for the track and the seek
\* position of the original call
C33_RetryAtMostOnce ==
    play.pc # "idle" =>
        /\ Len(play.requests) <= 2
        /\ play.refreshes <= 1
        /\ \A k \in 1..Len(play.requests) :
              /\ play.requests[k].uri = play.orig.uri
              /\ play.requests[k].positionMs = play.orig.positionMs

(***************************************************************************)
(* createAllDemoBlocks while the clock runs: src/app/dashboard/page.tsx    *)
(***************************************************************************)
\* the clock samples of the 24 createSingleDemoBlock calls of a loop that starts at t and
\* sees the clock step by delta before the call for index crossAt (24: no step seen)
SamplesCrossing(t, crossAt, delta) ==
    [i \in 0..(DEMO_BLOCKS - 1) |-> IF i < crossAt THEN t ELSE t + delta]

\* one millisecond before a 30-second and 30-minute boundary, one before a 30-second
\* boundary only, and an instant far from both
BuildNows ==
    {9 * MS_PER_HOUR + 29 * MS_PER_MINUTE + 59 * MS_PER_SECOND + 999,
     9 * MS_PER_HOUR + 29 * MS_PER_SECOND + 999,
     9 * MS_PER_HOUR + 7300}

BuildInit ==
    /\ now \in BuildNows
    /\ storage = Null
    /\ \E library \in Libraries : dash = [c \in Tabs |-> DashInitial(library, <<>>)]
    /\ player = PlayerInitial
    /\ ticks = 0
    /\ SchedIdle
    /\ LocIdle
    /\ TlIdle
    /\ ReadIdle
    /\ GenIdle
    /\ PlayIdle

\* const newBlocks = createAllDemoBlocks() in tab c, in either mode, the clock stepping by
\* one millisecond somewhere in the loop or not at all
BuildBlocks(c) ==
    /\ dash[c].pc = "init"
    /\ \E demoMode \in BOOLEAN, crossAt \in 0..DEMO_BLOCKS :
        /\ dash' = [dash EXCEPT
                       ![c].pc = "building",
                       ![c].demoMode = demoMode,
                       ![c].newBlocks =
                           createAllDemoBlocks(SamplesCrossing(now, crossAt, 1), demoMode,
                                               dash[c].userLibrary, dash[c].events)]
        /\ now' = IF crossAt < DEMO_BLOCKS THEN now + 1 ELSE now
    /\ UNCHANGED <<storage, player, ticks>>
    /\ DashFrame

BuildNext == BuildBlocks(1)

SpecBuildBlocks == BuildInit /\ [][BuildNext]_vars

\* the length of a dashboard block in its mode
DemoBlockMs(demoMode) == IF demoMode THEN 30 * MS_PER_SECOND ELSE 30 * MS_PER_MINUTE

\* C34: the 24 blocks createAllDemoBlocks built are contiguous and are counted from one
\* common boundary, also when the clock crossed a block boundary inside the loop
C34_DemoBlocksContiguous ==
    \A c \in Tabs :
        LET blocks == dash[c].newBlocks
        IN  \A i \in 1..Len(blocks) :
                /\ i < Len(blocks) => blocks[i].endTime = blocks[i + 1].startTime
                /\ blocks[i].startTime
                      = blocks[1].startTime + (i - 1) * DemoBlockMs(dash[c].demoMode)

(***************************************************************************)
(* The voice cache: getOrGenerateVoice (src/lib/musicSelector.ts) and the  *)
(* player's hymn_voice_<id> lookup (src/components/SpotifyPlayer.tsx)      *)
(***************************************************************************)
CacheFrame == UNCHANGED <<locVars, schedVars, dash, player, tlVars, readers, gen, play>>

\* localStorage.getItem(`hymn_voice_${voiceId}`): the cached audio, which is the audio
\* synthesized from some text, or Null
getCachedVoice(items, voiceId) ==
    IF \E x \in items : x.id = voiceId
    THEN CHOOSE x \in items : x.id = voiceId
    ELSE Null

\* localStorage.setItem(`hymn_voice_${voiceId}`, dataUrl), which may throw (caught)
cacheVoice(items, voiceId, text, setItemThrows) ==
    IF setItemThrows THEN items
    ELSE {x \in items : x.id # voiceId} \cup {[id |-> voiceId, text |-> text]}

\* the cache lookup and synthesis shared by getOrGenerateVoice and playVoiceAndMusic for
\* the voice segment `voice`: what the cache holds afterwards and the audio used, if any
VoiceLookup(cache, voice, synthOk, setItemThrows) ==
    LET cached == getCachedVoice(cache.items, voice.id)
    IN  IF cached # Null
        THEN [cache EXCEPT !.heard = [id |-> voice.id, fromCache |-> TRUE,
                                      audioFrom |-> cached.text, text |-> voice.content]]
        ELSE IF synthOk
        THEN [items |-> cacheVoice(cache.items, voice.id, voice.content, setItemThrows),
              heard |-> [id |-> voice.id, fromCache |-> FALSE,
                         audioFrom |-> voice.content, text |-> voice.content]]
        ELSE cache

\* the playback effect's playVoiceAndMusic for the intro of the live block of the stored
\* session: hasVoiceFirst, then the lookup
CachePlayIntro ==
    /\ storage # Null
    /\ LET block == getCurrentBlock(JSONparse(storage).blocks, now)
       IN  /\ block # Null
           /\ Len(block.voiceContent) > 0
           /\ block.voiceContent[1].timing = 0
           /\ ElapsedSeconds(block, now) < 5
           /\ \E synthOk \in BOOLEAN, setItemThrows \in BOOLEAN :
                 voiceCache' = VoiceLookup(voiceCache, block.voiceContent[1], synthOk,
                                           setItemThrows)
    /\ UNCHANGED <<now, storage, ticks>>
    /\ CacheFrame

\* getOrGenerateVoice(voiceId, text) for a voice segment of the live block
CacheGetOrGenerate ==
    /\ storage # Null
    /\ LET block == getCurrentBlock(JSONparse(storage).blocks, now)
       IN  /\ block # Null
           /\ \E k \in 1..Len(block.voiceContent), synthOk \in BOOLEAN,
                 setItemThrows \in BOOLEAN :
                 voiceCache' = VoiceLookup(voiceCache, block.voiceContent[k], synthOk,
                                           setItemThrows)
    /\ UNCHANGED <<now, storage, ticks>>
    /\ CacheFrame

\* createNewSession(newBlocks): forced regeneration
CacheRegenerate ==
    /\ storage # Null
    /\ \E blocks \in ReaderSchedules(now) :
          storage' = createNewSession(storage, blocks, now).storage
    /\ UNCHANGED <<now, voiceCache, ticks>>
    /\ CacheFrame

\* clearSession()
CacheClearSession ==
    /\ storage # Null
    /\ storage' = clearSession(storage)
    /\ UNCHANGED <<now, voiceCache, ticks>>
    /\ CacheFrame

\* getOrCreateSession(blocks) with nothing stored
CacheCreateSession ==
    /\ storage = Null
    /\ \E blocks \in ReaderSchedules(now) :
          storage' = getOrCreateSession(storage, blocks, now).storage
    /\ UNCHANGED <<now, voiceCache, ticks>>
    /\ CacheFrame

CacheNext ==
    \/ CachePlayIntro
    \/ CacheGetOrGenerate
    \/ CacheRegenerate
    \/ CacheClearSession
    \/ CacheCreateSession

\* a session was created at 09:00:02.300, two seconds into a block of either length
CacheInit ==
    /\ now = 9 * MS_PER_HOUR + 2300
    /\ \E blocks \in ReaderSchedules(now) :
          storage = getOrCreateSession(Null, blocks, now).storage
    /\ dash = [c \in Tabs |-> DashInitial(<<>>, <<>>)]
    /\ player = PlayerInitial
    /\ ticks = 0
    /\ ReadIdle
    /\ GenIdle
    /\ PlayIdle
    /\ SchedIdle
    /\ LocIdle
    /\ TlIdle

SpecVoiceCache == CacheInit /\ [][CacheNext]_vars

\* C35: whenever the voice cache answers with cached audio for a voice id, that audio
\* was synthesized from the text the voice segment with that id has at that moment
C35_CachedAudioMatchesText ==
    (voiceCache.heard # Null /\ voiceCache.heard.fromCache) =>
        voiceCache.heard.audioFrom = voiceCache.heard.text

\* C36: the timeline object a getOrCreateTimeline call returns holds exactly the items
\* persisted for the timeline at the moment the call returns, also after the call
\* regenerated the future
C36_ReturnedItemsArePersisted ==
    [][\A c \in Requests :
          (calls[c].pc # "returned" /\ calls'[c].pc = "returned")
              => calls'[c].items = db'.items]_vars

\* the track items a step wrote
NewTracks(before, after) == {it \in after \ before : it.type = "track"}

\* C37: the track items one generateTimelineItems call produces never overlap: of two of
\* them the earlier has ended when the later starts, also across the end of an hour
C37_TracksNeverOverlap ==
    [][\A a \in NewTracks(db.items, db'.items) : \A b \in NewTracks(db.items, db'.items) :
          (a.id # b.id /\ a.timestamp <= b.timestamp)
              => a.timestamp + a.duration * MS_PER_SECOND <= b.timestamp]_vars

\* C38: getCurrentItem answers with an item only if that item is live, timestamp <= now <
\* timestamp + duration, and with none when no item covers now
C38_CurrentItemIsLive ==
    \A q \in getCurrentItem(db.items, now) : PlayingAt(q, now)

setHoursMinutes00(t, h, m) ==
    (t \div (24 * MS_PER_HOUR)) * (24 * MS_PER_HOUR) + h * MS_PER_HOUR + m * MS_PER_MINUTE

\* a plausible slip: the next slot is computed from the current minute, not the next one
getNextRegenerationTime_FromCurrentMinute(t) ==
    LET nextSlot == CeilDiv(getMinutes(t), 30) * 30
    IN  IF nextSlot >= 60
        THEN setHoursMinutes00(t, getHours(t) + 1, nextSlot - 60)
        ELSE setMinutes00(t, nextSlot)

\* getNextRegenerationTime() at time t
getNextRegenerationTime(t) ==
    LET nextSlot == CeilDiv(getMinutes(t) + 1, 30) * 30
    IN  IF nextSlot >= 60
        THEN setHoursMinutes00(t, getHours(t) + 1, nextSlot - 60)
        ELSE setMinutes00(t, nextSlot)

\* every minute of the first hour of the day, of a morning hour and of the last hour, at
\* its first millisecond, one millisecond later and at its last millisecond
NextRegenNows ==
    {h * MS_PER_HOUR + m * MS_PER_MINUTE + f :
        h \in {0, 9, 23}, m \in 0..59, f \in {0, 1, MS_PER_MINUTE - 1}}

NextRegenInit ==
    /\ now \in NextRegenNows
    /\ ReadIdle
    /\ GenIdle
    /\ PlayIdle
    /\ DashIdle
    /\ SchedIdle
    /\ LocIdle
    /\ TlIdle

\* a caller asks when to regenerate next
NextRegenCall(r) ==
    /\ readers[r] = Null
    /\ readers' = [readers EXCEPT ![r] =
                      [at |-> now, nextTime |-> getNextRegenerationTime(now)]]
    /\ UNCHANGED <<now, storage, dash, player, ticks>>
    /\ ReadFrame

NextRegenNext == NextRegenCall(1)

SpecNextRegen == NextRegenInit /\ [][NextRegenNext]_vars

\* C40: getNextRegenerationTime returns the earliest 30-minute boundary strictly later
\* than now, for every minute of every hour and across midnight; the result is more than
\* 0 and at most 30 minutes ahead
C40_NextBoundaryAhead ==
    \A r \in Readers : readers[r] # Null =>
        /\ readers[r].nextTime % (30 * MS_PER_MINUTE) = 0
        /\ readers[r].nextTime > readers[r].at
        /\ readers[r].nextTime - readers[r].at <= 30 * MS_PER_MINUTE

\* asked in the last millisecond of 23:59, the answer is midnight of the next day
C40_Witness ==
    /\ readers[1] # Null
    /\ readers[1].at = 24 * MS_PER_HOUR - 1
    /\ readers[1].nextTime = 24 * MS_PER_HOUR

====
